---- MODULE Spec2Model ----
(***************************************************************************)
(* Desert-storm roster optimizer.                                          *)
(*                                                                         *)
(* Part 1: build_deterministic_roster (src/src/utils.py), the slot         *)
(* allocator.  Probabilities are integers in hundredths (0..100), so the   *)
(* default preference boost 0.05 is 5 and clip(x, 0.0, 1.0) is             *)
(* clip(x, 0, 100).                                                        *)
(***************************************************************************)
EXTENDS Integers, Sequences, FiniteSets, TLC

VARIABLES
    probs_df,             \* argument: the candidate table, a sequence of rows
    forced_assignments,   \* argument: the list of pre-placed slots
    capacities_by_group_role, \* argument: scored capacity per group and role
    has_events_seen,      \* whether probs_df has an events_seen column
    start_no_data_cap,    \* _CFG.START_NO_DATA_CAP
    df,                   \* the normalised, de-duplicated candidate table
    caps,                 \* caps[g][r] after max(0, int(..))
    used,                 \* set of canonical names already placed
    rows,                 \* the roster rows built so far
    forced_count,         \* forced_count[g][r]
    start_no_data_taken,  \* start_no_data_taken[g]
    slot,                 \* index into `order` of the next slot to fill
    pc,                   \* "setup" | "pick" | "assert" | "returned" | "raised" | "idle"
    error,                \* the exception raised, or NoError
    \* main(): hard signups -> forced assignments (src/src/main.py 1100-1263)
    event_signups,        \* event_signups_df, the rows in file order
    in_alliance_set,      \* canonical keys of the alliance members
    absent_now,           \* canonical keys absent for the next event
    pool_pref,            \* pool_idx: canonical key -> PrefGroup, for the keys in the pool
    row_no,               \* number of rows of event_signups processed so far
    capacities_remaining, \* capacities_remaining[g][r]
    seen_forced,          \* canonical keys with an accepted hard signup
    forced_signups,       \* accepted hard signups, in file order
    invalid_forced_signups,    \* rejected hard signups with their reason
    forced_count_snapshot,     \* forced_count_snapshot[g][r]
    overbooked_forced_signups, \* the per-slot excess report
    signup_file_entries,  \* row_debug of every row processed
    target_caps_by_group_role, \* remaining capacity plus forced count
    mpc,                  \* "idle" | "responses" | "compose" | "loop" | "report" | "call" | "floored" | "called"
    \* build_deterministic_roster with thresholds (the keyword arguments of
    \* the call at src/src/main.py 1319-1330)
    min_attend_start,     \* per group: {} for None, {t} for a minimum t
    min_attend_sub,       \* per group: {} for None, {t} for a minimum t
    min_b_starters,       \* wanted number of Team B starters
    allow_unfilled,       \* whether slots may stay empty
    selection_stage,      \* the _selection_stage column, one entry per roster row
    \* a second call of build_deterministic_roster
    first_run,            \* what the first call was given and returned, or NoRun
    \* main(): event responses and attend_prob (src/src/main.py 891-953,
    \* 1010-1054, 1265-1268); probabilities in millionths
    event_responses,      \* event_responses_df, the rows in file order
    decline_canons,       \* canonical keys with a decline
    noresp_canons,        \* canonical keys with a no_response
    pool,                 \* canonical key -> the columns of the pool row
    cfg,                  \* [EB_ENABLE, EB_LAMBDA (tenths)]
    prior_with_pad,       \* team prior plus pad
    attendance_config,    \* [no_response_multiplier, hard_commit_floor] (hundredths)
    \* a call of eb_rate or compute_team_prior (src/src/stats.py)
    call_args,            \* the arguments of the call, or NoCall
    call_result           \* what the call returned, or NoCall before it returns

rosterVars == <<probs_df, forced_assignments, capacities_by_group_role,
                has_events_seen, start_no_data_cap, df, caps, used, rows,
                forced_count, start_no_data_taken, slot, pc, error>>

signupVars == <<event_signups, in_alliance_set, absent_now, pool_pref, row_no,
                 capacities_remaining, seen_forced, forced_signups,
                 invalid_forced_signups, forced_count_snapshot,
                 overbooked_forced_signups, signup_file_entries,
                 target_caps_by_group_role, mpc>>

thresholdVars == <<min_attend_start, min_attend_sub, min_b_starters, allow_unfilled,
                   selection_stage>>

\* the variables outside the allocator, and outside the allocator and the
\* signup stage
rerunVars == <<first_run>>

composeVars == <<event_responses, decline_canons, noresp_canons, pool, cfg,
                 prior_with_pad, attendance_config>>

statsVars == <<call_args, call_result>>

outsideRoster == <<signupVars, thresholdVars, rerunVars, composeVars, statsVars>>
outsideSignup == <<thresholdVars, rerunVars, statsVars>>
outsideThreshold == <<signupVars, rerunVars, composeVars, statsVars>>

vars == <<rosterVars, signupVars, thresholdVars, rerunVars, composeVars, statsVars>>

-----------------------------------------------------------------------------
(* Constants of utils.py *)

GROUPS == <<"A", "B">>
ROLES == <<"Start", "Ersatz">>
GroupSet == {"A", "B"}
RoleSet == {"Start", "Ersatz"}

STARTERS_PER_GROUP == 20
SUBS_PER_GROUP == 10
DEFAULT_BOOST == 5

clip(x, lo, hi) == IF x < lo THEN lo ELSE IF x > hi THEN hi ELSE x

-----------------------------------------------------------------------------
(* canonical_name: NFKC, zero-width removal, homoglyph folding, lower-case, *)
(* whitespace collapse and trim.  Raw spellings that differ only in case   *)
(* or surrounding blanks fold to one key; blank input, and a name made of   *)
(* a zero-width space only (written "<U+200B>"), folds to "".               *)

canonical_name(s) ==
    CASE s \in {"Ann", "ann", " ann"} -> "ann"
      [] s \in {"Bob", "bob"} -> "bob"
      [] s \in {"Cy", "cy"} -> "cy"
      [] s \in {"Dee", "dee"} -> "dee"
      [] s \in {"Eve", "eve"} -> "eve"
      [] s = "Annie" -> "annie"
      [] s \in {"", " ", "<U+200B>"} -> ""
      [] OTHER -> s

\* Python's str ordering on the canonical names of the model.
NameOrder == <<"", "ann", "bob", "cy", "dee", "eve">>
NameIndex(n) == CHOOSE i \in 1..Len(NameOrder) : NameOrder[i] = n
name_lt(a, b) == NameIndex(a) < NameIndex(b)

-----------------------------------------------------------------------------
(* Sequence helpers *)

Range(s) == {s[i] : i \in 1..Len(s)}
NamesOf(s) == {s[i].PlayerName : i \in 1..Len(s)}

-----------------------------------------------------------------------------
(* Normalisation of the candidate table (utils.py 101-163) *)

RECURSIVE drop_duplicates(_, _, _)
\* df.drop_duplicates(subset=["PlayerName"], keep="first")
drop_duplicates(s, i, seen) ==
    IF i > Len(s) THEN <<>>
    ELSE IF s[i].PlayerName \in seen THEN drop_duplicates(s, i + 1, seen)
    ELSE <<s[i]>> \o drop_duplicates(s, i + 1, seen \cup {s[i].PlayerName})

\* effective boost of a row for group g (utils.py 155-158)
eff_boost(row, g) ==
    IF row.PrefGroup = g
    THEN (IF row.PrefBoost <= 0 THEN DEFAULT_BOOST ELSE row.PrefBoost)
    ELSE 0

\* score_{g}_start / score_{g}_sub (utils.py 160-163)
score(row, g, role) ==
    LET base == (IF role = "Start" THEN row.p_start ELSE row.p_sub) + eff_boost(row, g)
    IN  clip(base - row.risk_penalty, 0, 100)

normalize_row(raw) ==
    [PlayerName   |-> canonical_name(raw.PlayerName),
     p_start      |-> clip(raw.p_start, 0, 100),
     p_sub        |-> clip(raw.p_sub, 0, 100),
     PrefGroup    |-> raw.PrefGroup,
     PrefMode     |-> raw.PrefMode,
     PrefBoost    |-> clip(raw.PrefBoost, 0, 100),
     events_seen  |-> raw.events_seen,
     risk_penalty |-> IF raw.risk_penalty < 0 THEN 0 ELSE raw.risk_penalty]

normalize_df(table) ==
    drop_duplicates([i \in 1..Len(table) |-> normalize_row(table[i])], 1, {})

\* caps after reading capacities_by_group_role (utils.py 169-180)
read_caps(cbgr) ==
    [g \in GroupSet |-> [r \in RoleSet |->
        IF cbgr = <<>> THEN (IF r = "Start" THEN STARTERS_PER_GROUP ELSE SUBS_PER_GROUP)
        ELSE IF cbgr[g][r] < 0 THEN 0 ELSE cbgr[g][r]]]

-----------------------------------------------------------------------------
(* Forced placements (utils.py 182-193) *)

ZeroCount == [g \in GroupSet |-> [r \in RoleSet |-> 0]]

\* str(item.get("Group", "")).strip().upper()
strip_upper(s) ==
    CASE s \in {"a", "A", " A"} -> "A"
      [] s \in {"b", "B"} -> "B"
      [] s \in {"x", "X"} -> "X"
      [] OTHER -> s

\* str(item.get("Role", "")).strip().title()
strip_title(s) ==
    CASE s \in {"start", "Start", "START"} -> "Start"
      [] s \in {"ersatz", "Ersatz"} -> "Ersatz"
      [] s \in {"bench", "Bench"} -> "Bench"
      [] OTHER -> s

RECURSIVE place_forced_start(_, _, _)
\* variant: every forced player is booked as a starter, whatever the role given
place_forced_start(items, i, st) ==
    IF i > Len(items) THEN st
    ELSE LET item == items[i]
             g == strip_upper(item.Group)
             r == strip_title(item.Role)
             p == canonical_name(item.PlayerName)
         IN  IF p = "" \/ g \notin GroupSet \/ r \notin RoleSet \/ p \in st.used
             THEN place_forced_start(items, i + 1, st)
             ELSE place_forced_start(items, i + 1,
                    [used |-> st.used \cup {p},
                     rows |-> Append(st.rows, [PlayerName |-> p, Group |-> g, Role |-> "Start"]),
                     forced_count |-> [st.forced_count EXCEPT ![g]["Start"] = @ + 1]])

RECURSIVE place_forced(_, _, _)
\* st = [used, rows, forced_count]; one loop iteration per item
place_forced(items, i, st) ==
    IF i > Len(items) THEN st
    ELSE LET item == items[i]
             g == strip_upper(item.Group)
             r == strip_title(item.Role)
             p == canonical_name(item.PlayerName)
         IN  IF p = "" \/ g \notin GroupSet \/ r \notin RoleSet
             THEN place_forced(items, i + 1, st)
             ELSE IF p \in st.used
             THEN place_forced(items, i + 1, st)
             ELSE place_forced(items, i + 1,
                    [used |-> st.used \cup {p},
                     rows |-> Append(st.rows, [PlayerName |-> p, Group |-> g, Role |-> r]),
                     forced_count |-> [st.forced_count EXCEPT ![g][r] = @ + 1]])

-----------------------------------------------------------------------------
(* _sort_candidates (utils.py 199-211) *)

\* variant: rows that tie on score and probabilities keep the table order
sort_before_no_name(a, b, group, role) ==
    LET sa == score(a, group, role)
        sb == score(b, group, role)
        pa == IF role = "Start" THEN a.p_start ELSE a.p_sub
        pb == IF role = "Start" THEN b.p_start ELSE b.p_sub
        qa == IF role = "Start" THEN a.p_sub ELSE a.p_start
        qb == IF role = "Start" THEN b.p_sub ELSE b.p_start
    IN  \/ sa > sb
        \/ sa = sb /\ pa > pb
        \/ sa = sb /\ pa = pb /\ qa > qb

\* variant: the sort key without the other role's probability
sort_before_claimed(a, b, group, role) ==
    LET sa == score(a, group, role)
        sb == score(b, group, role)
        pa == IF role = "Start" THEN a.p_start ELSE a.p_sub
        pb == IF role = "Start" THEN b.p_start ELSE b.p_sub
    IN  \/ sa > sb
        \/ sa = sb /\ pa > pb
        \/ sa = sb /\ pa = pb /\ name_lt(a.PlayerName, b.PlayerName)

\* TRUE iff row a sorts strictly before row b under the key
\* [score desc, primary desc, secondary desc, PlayerName asc]
sort_before(a, b, group, role) ==
    LET sa == score(a, group, role)
        sb == score(b, group, role)
        pa == IF role = "Start" THEN a.p_start ELSE a.p_sub
        pb == IF role = "Start" THEN b.p_start ELSE b.p_sub
        qa == IF role = "Start" THEN a.p_sub ELSE a.p_start
        qb == IF role = "Start" THEN b.p_sub ELSE b.p_start
    IN  \/ sa > sb
        \/ sa = sb /\ pa > pb
        \/ sa = sb /\ pa = pb /\ qa > qb
        \/ sa = sb /\ pa = pb /\ qa = qb /\ name_lt(a.PlayerName, b.PlayerName)

RECURSIVE insert_sorted(_, _, _, _)
\* stable insertion: x goes after every element it does not sort strictly before
insert_sorted(sorted, x, group, role) ==
    IF sorted = <<>> THEN <<x>>
    ELSE IF sort_before(x, Head(sorted), group, role)
         THEN <<x>> \o sorted
         ELSE <<Head(sorted)>> \o insert_sorted(Tail(sorted), x, group, role)

RECURSIVE sort_values(_, _, _, _)
\* stable sort (kind="mergesort") of s[1..n]
sort_values(s, n, group, role) ==
    IF n = 0 THEN <<>>
    ELSE insert_sorted(sort_values(s, n - 1, group, role), s[n], group, role)

\* variant: the players already placed are not filtered out
_sort_candidates_all(table, usedNames, group, role) ==
    sort_values(table, Len(table), group, role)

_sort_candidates(table, usedNames, group, role) ==
    LET unused == SelectSeq(table, LAMBDA row : row.PlayerName \notin usedNames)
    IN  sort_values(unused, Len(unused), group, role)

-----------------------------------------------------------------------------
(* _pick_for (utils.py 213-297) *)

\* the five category masks (utils.py 221-234)
recognized_pref(row) == row.PrefGroup \in GroupSet
cat1(row, group) == row.PrefGroup = group /\ row.PrefMode = "hard"
cat2(row, group) == row.PrefGroup = group /\ row.PrefMode = "soft"
cat3(row, group) ==
    /\ ~(cat1(row, group) \/ cat2(row, group))
    /\ (row.PrefGroup = group \/ ~recognized_pref(row) \/ row.PrefGroup = "")
\* variant: category 4 takes every preference for the other team, hard included
cat4_any(row, group) ==
    /\ ~(row.PrefGroup = group \/ row.PrefGroup \notin GroupSet \/ row.PrefGroup = "")
    /\ row.PrefGroup \in GroupSet /\ row.PrefGroup # group

cat4(row, group) ==
    /\ ~(cat1(row, group) \/ cat2(row, group) \/ cat3(row, group))
    /\ row.PrefGroup \in GroupSet /\ row.PrefGroup # group /\ row.PrefMode # "hard"
cat5(row, group) ==
    row.PrefGroup \in GroupSet /\ row.PrefGroup # group /\ row.PrefMode = "hard"

\* variant: the neutral candidates are drawn ahead of the hard matches
in_category_swapped(k, row, group) ==
    CASE k = 1 -> cat3(row, group)
      [] k = 2 -> cat2(row, group)
      [] k = 3 -> cat1(row, group)
      [] k = 4 -> cat4(row, group)
      [] k = 5 -> cat5(row, group)

in_category(k, row, group) ==
    CASE k = 1 -> cat1(row, group)
      [] k = 2 -> cat2(row, group)
      [] k = 3 -> cat3(row, group)
      [] k = 4 -> cat4(row, group)
      [] k = 5 -> cat5(row, group)

NumCategories == 5

\* variant: only a negative events_seen counts as no data
is_no_data_neg(row, guardOn) == guardOn /\ row.events_seen < 0

\* is_no_data of _take_from (utils.py 250-257)
is_no_data(row, guardOn) == guardOn /\ row.events_seen <= 0

RECURSIVE take_loop_break(_, _, _, _, _, _, _)
\* variant: the loop ends at the first candidate the guard rejects
take_loop_break(available, i, local_remaining, taken, chosen, guardOn, cap) ==
    IF i > Len(available) \/ local_remaining <= 0
    THEN [chosen |-> chosen, remaining |-> local_remaining, taken |-> taken]
    ELSE IF is_no_data(available[i], guardOn) /\ taken >= cap
    THEN [chosen |-> chosen, remaining |-> local_remaining, taken |-> taken]
    ELSE take_loop_break(available, i + 1, local_remaining - 1,
                         IF is_no_data(available[i], guardOn) THEN taken + 1 ELSE taken,
                         Append(chosen, available[i]), guardOn, cap)

RECURSIVE take_loop(_, _, _, _, _, _, _)
\* the for-loop of _take_from (utils.py 247-263)
take_loop(available, i, local_remaining, taken, chosen, guardOn, cap) ==
    IF i > Len(available) \/ local_remaining <= 0
    THEN [chosen |-> chosen, remaining |-> local_remaining, taken |-> taken]
    ELSE IF is_no_data(available[i], guardOn) /\ taken >= cap
    THEN take_loop(available, i + 1, local_remaining, taken, chosen, guardOn, cap)
    ELSE take_loop(available, i + 1, local_remaining - 1,
                   IF is_no_data(available[i], guardOn) THEN taken + 1 ELSE taken,
                   Append(chosen, available[i]), guardOn, cap)

\* _take_from (utils.py 241-267)
_take_from(available, remaining_slots, taken, guardOn, cap) ==
    IF remaining_slots <= 0 \/ available = <<>>
    THEN [chosen |-> <<>>, remaining |-> remaining_slots, taken |-> taken]
    ELSE take_loop(available, 1, remaining_slots, taken, <<>>, guardOn, cap)

RECURSIVE category_loop(_, _, _, _, _, _)
\* for mask in categories (utils.py 269-279); st = [selected, remaining, taken]
category_loop(candidates, k, st, group, guardOn, cap) ==
    IF k > NumCategories \/ st.remaining <= 0 THEN st
    ELSE LET sel == NamesOf(st.selected)
             available == SelectSeq(candidates,
                             LAMBDA row : in_category(k, row, group) /\ row.PlayerName \notin sel)
             t == _take_from(available, st.remaining, st.taken, guardOn, cap)
         IN  category_loop(candidates, k + 1,
                           [selected |-> st.selected \o t.chosen,
                            remaining |-> t.remaining,
                            taken |-> t.taken],
                           group, guardOn, cap)

\* the pass after the categories (utils.py 281-287)
fallback_pass(candidates, st, guardOn, cap) ==
    IF st.remaining > 0
    THEN LET sel == NamesOf(st.selected)
             fallback == SelectSeq(candidates, LAMBDA row : row.PlayerName \notin sel)
             t == _take_from(fallback, st.remaining, st.taken, guardOn, cap)
         IN  [selected |-> st.selected \o t.chosen, remaining |-> t.remaining, taken |-> t.taken]
    ELSE st

\* _pick_for: [picked, remaining, taken, raised]
_pick_for(table, usedNames, group, role, count, taken, guard_enabled, cap) ==
    LET candidates == _sort_candidates(table, usedNames, group, role)
        guardOn == guard_enabled /\ role = "Start"
    IN  IF candidates = <<>>
        THEN [picked |-> <<>>, remaining |-> count, taken |-> taken, raised |-> FALSE]
        ELSE LET st0 == [selected |-> <<>>, remaining |-> count, taken |-> taken]
                 st1 == category_loop(candidates, 1, st0, group, guardOn, cap)
                 st2 == fallback_pass(candidates, st1, guardOn, cap)
             IN  [picked |-> st2.selected, remaining |-> st2.remaining,
                  taken |-> st2.taken, raised |-> st2.remaining > 0]

-----------------------------------------------------------------------------
(* build_deterministic_roster as a state machine *)

NoError == [kind |-> "none", group |-> "", role |-> "", missing |-> -1]

\* the fixed slot order (utils.py 300-305)
order == <<[group |-> "A", role |-> "Start"],
           [group |-> "B", role |-> "Start"],
           [group |-> "A", role |-> "Ersatz"],
           [group |-> "B", role |-> "Ersatz"]>>

guard_enabled == has_events_seen /\ start_no_data_cap >= 0

\* utils.py 96-197: normalise the table, read the capacities, place the forced slots
Setup ==
    /\ pc = "setup"
    /\ LET st == place_forced(forced_assignments, 1,
                    [used |-> {}, rows |-> <<>>, forced_count |-> ZeroCount])
       IN  /\ df' = normalize_df(probs_df)
           /\ caps' = read_caps(capacities_by_group_role)
           /\ used' = st.used
           /\ rows' = st.rows
           /\ forced_count' = st.forced_count
    /\ start_no_data_taken' = [g \in GroupSet |-> 0]
    /\ slot' = 1
    /\ pc' = "pick"
    /\ UNCHANGED <<probs_df, forced_assignments, capacities_by_group_role,
                   has_events_seen, start_no_data_cap, error>>
    /\ UNCHANGED outsideRoster

\* one iteration of `for group, role, cap in order` (utils.py 307-311)
PickSlot ==
    /\ pc = "pick"
    /\ LET group == order[slot].group
           role == order[slot].role
           res == _pick_for(df, used, group, role, caps[group][role],
                            start_no_data_taken[group], guard_enabled, start_no_data_cap)
       IN  /\ start_no_data_taken' = [start_no_data_taken EXCEPT ![group] = res.taken]
           /\ IF res.raised
              THEN /\ pc' = "raised"
                   /\ error' = [kind |-> "RuntimeError", group |-> group, role |-> role,
                                missing |-> res.remaining]
                   /\ UNCHANGED <<used, rows, slot>>
              ELSE /\ used' = used \cup NamesOf(res.picked)
                   /\ rows' = rows \o [i \in 1..Len(res.picked) |->
                                  [PlayerName |-> res.picked[i].PlayerName,
                                   Group |-> group, Role |-> role]]
                   /\ slot' = slot + 1
                   /\ pc' = IF slot = Len(order) THEN "assert" ELSE "pick"
                   /\ UNCHANGED error
    /\ UNCHANGED <<probs_df, forced_assignments, capacities_by_group_role,
                   has_events_seen, start_no_data_cap, df, caps, forced_count>>
    /\ UNCHANGED outsideRoster

CountRows(rs, g, r) == Cardinality({i \in 1..Len(rs) : rs[i].Group = g /\ rs[i].Role = r})
HasDuplicates(rs) == \E i, j \in 1..Len(rs) : i < j /\ rs[i].PlayerName = rs[j].PlayerName

\* variant: only the duplicate check is made
failed_assert_dups(rs, capsNow, forced) ==
    IF HasDuplicates(rs)
    THEN [kind |-> "AssertionError", group |-> "", role |-> "", missing |-> -1]
    ELSE NoError

\* the first assertion that fails (utils.py 316-321), or NoError
failed_assert(rs, capsNow, forced) ==
    IF HasDuplicates(rs)
    THEN [kind |-> "AssertionError", group |-> "", role |-> "", missing |-> -1]
    ELSE IF \E g \in GroupSet, r \in RoleSet : CountRows(rs, g, r) # capsNow[g][r] + forced[g][r]
    THEN LET bad == {<<i, j>> \in (1..2) \X (1..2) :
                        CountRows(rs, GROUPS[i], ROLES[j]) # capsNow[GROUPS[i]][ROLES[j]] + forced[GROUPS[i]][ROLES[j]]}
             first == CHOOSE x \in bad : \A y \in bad : x[1] < y[1] \/ (x[1] = y[1] /\ x[2] <= y[2])
         IN  [kind |-> "AssertionError", group |-> GROUPS[first[1]], role |-> ROLES[first[2]],
              missing |-> -1]
    ELSE NoError

\* utils.py 313-323: build `out`, run the assertions, return
Finish ==
    /\ pc = "assert"
    /\ LET e == failed_assert(rows, caps, forced_count)
       IN  /\ error' = e
           /\ pc' = IF e = NoError THEN "returned" ELSE "raised"
    /\ UNCHANGED <<probs_df, forced_assignments, capacities_by_group_role,
                   has_events_seen, start_no_data_cap, df, caps, used, rows,
                   forced_count, start_no_data_taken, slot>>
    /\ UNCHANGED outsideRoster

Next == Setup \/ PickSlot \/ Finish

-----------------------------------------------------------------------------
(* Inputs *)

MaxCands == 3      \* rows of a candidate table with distinct names
MaxCap == 2        \* scored capacity handed in for the two Start slots together
MaxForced == 2     \* entries of forced_assignments
MaxDupRows == 2    \* rows of a candidate table that spell the same name
MaxSortRows == 2   \* rows of a candidate table that differ only in their sort keys

RawRow(name, pg, pm, ps, pb, ev, boost, risk) ==
    [PlayerName |-> name, p_start |-> ps, p_sub |-> pb, PrefGroup |-> pg,
     PrefMode |-> pm, PrefBoost |-> boost, events_seen |-> ev, risk_penalty |-> risk]

CapTable(aStart, bStart, aSub, bSub) ==
    [g \in GroupSet |-> [r \in RoleSet |->
        IF g = "A" THEN (IF r = "Start" THEN aStart ELSE aSub)
        ELSE (IF r = "Start" THEN bStart ELSE bSub)]]

\* raw spellings by table position: distinct canonical names
PositionNames == <<"Ann", "bob", "Cy", "dee", "Eve">>

\* Candidate profiles <<PrefGroup, PrefMode, p, events_seen>>.  Between them the
\* profiles put a candidate in each of the five categories of slot A and of
\* slot B, with and without history, and with a later category scoring
\* higher than an earlier one.
Profiles ==
    {<<"A", "hard", 75, 4>>,
     <<"A", "soft", 80, 0>>,
     <<"",  "",     80, 0>>,
     <<"",  "",     75, 4>>,
     <<"B", "",     80, 4>>,
     <<"B", "hard", 80, 0>>,
     <<"B", "hard", 75, 4>>}

ProfileRow(name, k) == RawRow(name, k[1], k[2], k[3], k[3], k[4], 0, 0)

\* (a) tables of distinct players that differ in preference, score and history
InitPrefs ==
    /\ \E n \in 0..MaxCands : \E f \in [1..n -> Profiles] :
          probs_df = [i \in 1..n |-> ProfileRow(PositionNames[i], f[i])]
    /\ forced_assignments = <<>>
    /\ \E a, b \in 0..MaxCap, c \in 0..1 :
          /\ a + b <= MaxCap
          /\ capacities_by_group_role = CapTable(a, b, c, 0)
    /\ has_events_seen = TRUE
    /\ start_no_data_cap \in {0, 1}

\* (b) tables whose rows tie or differ on the sort keys only: one category,
\*     every permutation of the names, guard off or at its default
SortNames == {"Ann", "bob", "Cy"}
SortKeys == {70, 80} \X {70, 80} \X {0, 10}

InitSort ==
    /\ \E n \in 1..MaxSortRows : \E nm \in [1..n -> SortNames], f \in [1..n -> SortKeys] :
          /\ \A i, j \in 1..n : i # j => nm[i] # nm[j]
          /\ probs_df = [i \in 1..n |-> RawRow(nm[i], "", "", f[i][1], f[i][2], 0, 0, f[i][3])]
    /\ forced_assignments = <<>>
    /\ capacities_by_group_role \in
          {CapTable(1, 0, 0, 0), CapTable(2, 0, 0, 0), CapTable(0, 0, 0, 1)}
    /\ \E gd \in {<<FALSE, 2>>, <<TRUE, -1>>, <<TRUE, 2>>} :
          has_events_seen = gd[1] /\ start_no_data_cap = gd[2]

\* (c) tables that repeat a name under different spellings, with forced
\*     assignments that repeat, are malformed, or name a candidate
DupRows ==
    {ProfileRow("Ann", <<"A", "hard", 75, 4>>),
     ProfileRow("ann", <<"", "", 80, 0>>)}
OtherRows == {<<>>, <<ProfileRow("bob", <<"B", "", 80, 4>>)>>}

ForcedItems ==
    {[PlayerName |-> n, Group |-> sl[1], Role |-> sl[2]] :
        n \in {"Ann", "Cy"}, sl \in {<<"A", "Start">>, <<"b", "ersatz">>}}
    \cup {[PlayerName |-> "", Group |-> "A", Role |-> "Start"],
          [PlayerName |-> "ann", Group |-> "X", Role |-> "Start"],
          [PlayerName |-> "Cy", Group |-> "B", Role |-> "Bench"]}

InitForced ==
    /\ \E n \in 0..MaxDupRows : \E d \in [1..n -> DupRows], o \in OtherRows :
          probs_df = d \o o
    /\ \E n \in 0..MaxForced : forced_assignments \in [1..n -> ForcedItems]
    /\ capacities_by_group_role \in {CapTable(0, 0, 0, 0), CapTable(1, 0, 0, 0), <<>>}
    /\ has_events_seen = TRUE
    /\ start_no_data_cap = 2

InitRest ==
    /\ df = <<>>
    /\ caps = ZeroCount
    /\ used = {}
    /\ rows = <<>>
    /\ forced_count = ZeroCount
    /\ start_no_data_taken = [g \in GroupSet |-> 0]
    /\ slot = 1
    /\ pc = "setup"
    /\ error = NoError

\* the signup stage of main() is not running
SignupIdle ==
    /\ event_signups = <<>>
    /\ in_alliance_set = {}
    /\ absent_now = {}
    /\ pool_pref = <<>>
    /\ row_no = 0
    /\ capacities_remaining = ZeroCount
    /\ seen_forced = {}
    /\ forced_signups = <<>>
    /\ invalid_forced_signups = <<>>
    /\ forced_count_snapshot = ZeroCount
    /\ overbooked_forced_signups = <<>>
    /\ signup_file_entries = <<>>
    /\ target_caps_by_group_role = ZeroCount
    /\ mpc = "idle"

\* no call of the allocator has returned yet
NoRun == [probs_df |-> <<>>, rows |-> <<>>, pc |-> "none",
          error |-> [kind |-> "none", group |-> "", role |-> "", missing |-> -1]]

\* the responses and attend_prob stage of main() is not running
ComposeIdle ==
    /\ event_responses = <<>>
    /\ decline_canons = {}
    /\ noresp_canons = {}
    /\ pool = <<>>
    /\ cfg = [EB_ENABLE |-> TRUE, EB_LAMBDA |-> 2]
    /\ prior_with_pad = 0
    /\ attendance_config = [no_response_multiplier |-> 65, hard_commit_floor |-> 92]

\* the allocator is called once, without thresholds
NoCall == <<>>

\* no function of stats.py is being called
StatsIdle ==
    /\ call_args = NoCall
    /\ call_result = NoCall

ThresholdIdle ==
    /\ first_run = NoRun
    /\ min_attend_start = [g \in GroupSet |-> {}]
    /\ min_attend_sub = [g \in GroupSet |-> {}]
    /\ min_b_starters = 0
    /\ allow_unfilled = FALSE
    /\ selection_stage = <<>>

Init ==
    (InitPrefs \/ InitSort \/ InitForced) /\ InitRest /\ SignupIdle /\ ThresholdIdle /\ ComposeIdle
    /\ StatsIdle

Spec == Init /\ [][Next]_vars

-----------------------------------------------------------------------------
(* Part 2: main() turns the hard signups of event_signups_next.csv into    *)
(* forced assignments (src/src/main.py 1096-1263) and calls the allocator  *)
(* with them (1288, 1320-1326).                                            *)

\* canon = None: the key is NA or blank
NoCanon == ""

\* alias_map of load_alias_map: canonical spelling -> canonical key
alias_map == [a \in {"annie"} |-> "ann"]

\* to_canon: canonical_name, then the alias table
to_canon(value) ==
    LET base == canonical_name(value)
    IN  IF base \in DOMAIN alias_map THEN alias_map[base] ELSE base

\* Commitment: strip, lower, "" -> none, anything but hard/none -> none
normalize_commitment(s) ==
    IF s \in {"hard", "HARD", " hard"} THEN "hard" ELSE "none"

\* one file row <<PlayerName, Group, Role, Commitment>> as _load_event_signups
\* leaves it
load_row(raw) ==
    [PlayerName |-> raw[1], canon |-> to_canon(raw[1]),
     Group |-> strip_upper(raw[2]), Role |-> strip_title(raw[3]),
     Commitment |-> normalize_commitment(raw[4])]

RECURSIVE _load_event_signups(_, _)
\* rows without a PlayerName are dropped, the others keep the file order
_load_event_signups(raws, i) ==
    IF i > Len(raws) THEN <<>>
    ELSE IF raws[i][1] = "" THEN _load_event_signups(raws, i + 1)
    ELSE <<load_row(raws[i])>> \o _load_event_signups(raws, i + 1)

\* capacities_remaining before the loop
full_capacity(r) == IF r = "Start" THEN STARTERS_PER_GROUP ELSE SUBS_PER_GROUP

\* GROUPS.index(g), counted from 1
GroupIndex(g) == CHOOSE i \in 1..Len(GROUPS) : GROUPS[i] = g

\* the key of max() in _choose_group, compared as Python compares tuples
group_key_lt(g, h, cr) ==
    LET kg == cr[g]["Start"] + cr[g]["Ersatz"]
        kh == cr[h]["Start"] + cr[h]["Ersatz"]
    IN  kg < kh \/ (kg = kh /\ (0 - GroupIndex(g)) < (0 - GroupIndex(h)))

\* the group named in the signup wins; else the pool's PrefGroup; else the
\* group with the most remaining slots
_choose_group(signup_group, pref_group, cr) ==
    IF signup_group \in GroupSet THEN signup_group
    ELSE LET desired == IF pref_group \in GroupSet THEN {pref_group} ELSE GroupSet
         IN  CHOOSE g \in desired : \A h \in desired \ {g} : group_key_lt(h, g, cr)

_choose_role(target_group, signup_role, cr) ==
    IF signup_role \in RoleSet THEN signup_role
    ELSE IF cr[target_group]["Start"] >= cr[target_group]["Ersatz"] THEN "Start"
    ELSE "Ersatz"

\* variant: a repeated player is not recognised
invalid_reason_no_duplicate(canon, seen, alliance, absent, pool_canons) ==
    IF canon = NoCanon THEN "unknown_player"
    ELSE IF canon \notin alliance THEN "not_in_alliance"
    ELSE IF canon \in absent THEN "absent"
    ELSE IF canon \notin pool_canons THEN "inactive_or_filtered"
    ELSE "valid"

\* the checks of a hard signup in the order of main.py 1181-1205
invalid_reason(canon, seen, alliance, absent, pool_canons) ==
    IF canon = NoCanon THEN "unknown_player"
    ELSE IF canon \in seen THEN "duplicate"
    ELSE IF canon \notin alliance THEN "not_in_alliance"
    ELSE IF canon \in absent THEN "absent"
    ELSE IF canon \notin pool_canons THEN "inactive_or_filtered"
    ELSE "valid"

\* one iteration of the loop over event_signups_df
ProcessRow ==
    /\ mpc = "loop"
    /\ row_no < Len(event_signups)
    /\ LET row == event_signups[row_no + 1]
           display == row.PlayerName
           group_pref == strip_upper(row.Group)
           role_pref == strip_title(row.Role)
           canon == row.canon
           reason == invalid_reason(canon, seen_forced, in_alliance_set,
                                    absent_now, DOMAIN pool_pref)
       IN  /\ row_no' = row_no + 1
           /\ IF row.Commitment # "hard"
              THEN /\ signup_file_entries' = Append(signup_file_entries,
                          [player |-> display, status |-> "info_only"])
                   /\ UNCHANGED <<capacities_remaining, seen_forced, forced_signups,
                                  invalid_forced_signups, forced_count_snapshot>>
              ELSE IF reason # "valid"
              THEN /\ invalid_forced_signups' = Append(invalid_forced_signups,
                          [player |-> display, canon |-> canon, reason |-> reason])
                   /\ signup_file_entries' = Append(signup_file_entries,
                          [player |-> display, status |-> "invalid"])
                   /\ UNCHANGED <<capacities_remaining, seen_forced, forced_signups,
                                  forced_count_snapshot>>
              ELSE LET pref_group == strip_upper(pool_pref[canon])
                       target_group == _choose_group(group_pref, pref_group,
                                                     capacities_remaining)
                       target_role == _choose_role(target_group, role_pref,
                                                   capacities_remaining)
                       remaining == capacities_remaining[target_group][target_role] - 1
                   IN  /\ capacities_remaining' =
                              [capacities_remaining EXCEPT
                                  ![target_group][target_role] = remaining]
                       /\ seen_forced' = seen_forced \cup {canon}
                       /\ forced_signups' = Append(forced_signups,
                              [player |-> display, canon |-> canon,
                               group |-> target_group, role |-> target_role,
                               overbooked |-> (remaining < 0)])
                       /\ signup_file_entries' = Append(signup_file_entries,
                              [player |-> display, status |-> "forced"])
                       /\ forced_count_snapshot' =
                              [forced_count_snapshot EXCEPT
                                  ![target_group][target_role] = @ + 1]
                       /\ UNCHANGED invalid_forced_signups
    /\ mpc' = IF row_no + 1 = Len(event_signups) THEN "report" ELSE "loop"
    /\ UNCHANGED <<event_signups, in_alliance_set, absent_now, pool_pref,
                   overbooked_forced_signups, target_caps_by_group_role>>
    /\ UNCHANGED rosterVars
    /\ UNCHANGED outsideSignup
    /\ UNCHANGED composeVars

\* the slots in the order of the loops "for g in GROUPS: for r in [Start, Ersatz]"
report_order == <<[group |-> "A", role |-> "Start"], [group |-> "A", role |-> "Ersatz"],
                  [group |-> "B", role |-> "Start"], [group |-> "B", role |-> "Ersatz"]>>

RECURSIVE report_overbooked(_, _)
\* one entry for every slot whose remaining capacity is negative
report_overbooked(cr, i) ==
    IF i > Len(report_order) THEN <<>>
    ELSE LET g == report_order[i].group
             r == report_order[i].role
             remaining == cr[g][r]
         IN  (IF remaining < 0
              THEN <<[group |-> g, role |-> r, excess_forced |-> 0 - remaining,
                      capacity |-> full_capacity(r)]>>
              ELSE <<>>) \o report_overbooked(cr, i + 1)

\* variant: the negative remainders are left as they are
keep_remaining(cr) == cr

\* capacities_remaining[g][r] = 0 wherever it was negative
clamp_remaining(cr) ==
    [g \in GroupSet |-> [r \in RoleSet |-> IF cr[g][r] < 0 THEN 0 ELSE cr[g][r]]]

\* the overbooking report after the loop (main.py 1245-1263)
Report ==
    /\ mpc = "report"
    /\ overbooked_forced_signups' = report_overbooked(capacities_remaining, 1)
    /\ capacities_remaining' = clamp_remaining(capacities_remaining)
    /\ target_caps_by_group_role' =
           [g \in GroupSet |-> [r \in RoleSet |->
               capacities_remaining'[g][r] + forced_count_snapshot[g][r]]]
    /\ mpc' = "call"
    /\ UNCHANGED <<event_signups, in_alliance_set, absent_now, pool_pref, row_no,
                   seen_forced, forced_signups, invalid_forced_signups,
                   forced_count_snapshot, signup_file_entries>>
    /\ UNCHANGED rosterVars
    /\ UNCHANGED outsideSignup
    /\ UNCHANGED composeVars

\* the order of the rows of builder_pool (the alliance file)
pool_order == <<"ann", "bob", "m01", "m02", "m03", "m04", "m05", "m06", "m07",
                "m08", "m09", "m10", "m11", "m12", "m13", "m14", "m15", "m16",
                "m17", "m18", "m19", "m20", "m21", "m22", "m23", "m24">>

RECURSIVE pool_for_builder(_, _, _)
\* builder_pool[~builder_pool["canon"].isin(seen_forced)], the columns
\* PlayerName and PrefGroup of probs_for_builder
pool_for_builder(prefs, seen, i) ==
    IF i > Len(pool_order) THEN <<>>
    ELSE IF pool_order[i] \in DOMAIN prefs /\ pool_order[i] \notin seen
         THEN <<[PlayerName |-> pool_order[i], PrefGroup |-> prefs[pool_order[i]]]>>
              \o pool_for_builder(prefs, seen, i + 1)
         ELSE pool_for_builder(prefs, seen, i + 1)

\* the arguments of the call of build_deterministic_roster (main.py 1288-1326)
BuildCall ==
    /\ mpc = "floored"
    /\ probs_df' = pool_for_builder(pool_pref, seen_forced, 1)
    /\ forced_assignments' =
           [i \in 1..Len(forced_signups) |->
               [PlayerName |-> forced_signups[i].canon,
                Group |-> forced_signups[i].group,
                Role |-> forced_signups[i].role]]
    /\ capacities_by_group_role' = capacities_remaining
    /\ mpc' = "called"
    /\ UNCHANGED <<has_events_seen, start_no_data_cap, df, caps, used, rows,
                   forced_count, start_no_data_taken, slot, pc, error>>
    /\ UNCHANGED <<event_signups, in_alliance_set, absent_now, pool_pref, row_no,
                   capacities_remaining, seen_forced, forced_signups,
                   invalid_forced_signups, forced_count_snapshot,
                   overbooked_forced_signups, signup_file_entries,
                   target_caps_by_group_role>>
    /\ UNCHANGED outsideSignup
    /\ UNCHANGED composeVars

(* Event responses and attend_prob (main.py 891-953, 1010-1054, 1265-1268). *)
(* Probabilities are integers in millionths: ONE is 1.0.                    *)

ONE == 1000000
HUNDREDTH == 10000

\* response_penalty_value = 0.15
RESPONSE_PENALTY == 150000

\* _normalize_status of _load_event_responses
normalize_status(val) ==
    IF val \in {"decline", "Declined", "absage", "no", "cancel"} THEN "decline"
    ELSE IF val \in {"no_response", "none", "unanswered", "n/a", "", "missing"}
    THEN "no_response"
    ELSE ""

RECURSIVE _load_event_responses(_, _)
\* file rows <<PlayerName, Status>>: rows without a name or without a
\* recognised status are dropped
_load_event_responses(raws, i) ==
    IF i > Len(raws) THEN <<>>
    ELSE IF raws[i][1] = "" \/ normalize_status(raws[i][2]) = ""
    THEN _load_event_responses(raws, i + 1)
    ELSE <<[PlayerName |-> raws[i][1], canon |-> to_canon(raws[i][1]),
            Status |-> normalize_status(raws[i][2])]>>
         \o _load_event_responses(raws, i + 1)

\* variant: a decline only marks the player
drop_declined_keep(f, declined) == f

\* pool[~pool["canon"].isin(decline_canons)]
drop_declined(f, declined) == [c \in (DOMAIN f) \ declined |-> f[c]]

\* the loop over event_responses_df and the decline filter (main.py 891-953)
ApplyResponses ==
    /\ mpc = "responses"
    /\ LET declined == {event_responses[i].canon : i \in
                           {k \in 1..Len(event_responses) :
                               event_responses[k].canon # NoCanon
                               /\ event_responses[k].Status = "decline"}}
           silent == {event_responses[i].canon : i \in
                         {k \in 1..Len(event_responses) :
                             event_responses[k].canon # NoCanon
                               /\ event_responses[k].Status = "no_response"}}
       IN  /\ decline_canons' = declined
           /\ noresp_canons' = silent
           /\ pool' = drop_declined(pool, declined)
           /\ pool_pref' = drop_declined(pool_pref, declined)
    /\ mpc' = "compose"
    /\ UNCHANGED <<event_signups, in_alliance_set, absent_now, row_no,
                   capacities_remaining, seen_forced, forced_signups,
                   invalid_forced_signups, forced_count_snapshot,
                   overbooked_forced_signups, signup_file_entries,
                   target_caps_by_group_role>>
    /\ UNCHANGED <<event_responses, cfg, prior_with_pad, attendance_config>>
    /\ UNCHANGED rosterVars
    /\ UNCHANGED outsideSignup

\* variant: the risk penalty of a row is lambda * sigma only
risk_penalty_eb_only(row, silent, config) ==
    LET risk == IF config.EB_ENABLE THEN (config.EB_LAMBDA * row.eb_sigma) \div 10 ELSE 0
    IN  IF risk < 0 THEN 0 ELSE risk

\* risk_penalty of a pool row: lambda * sigma, plus the response penalty
\* (main.py 1019-1034)
risk_penalty(row, silent, config) ==
    LET risk == IF config.EB_ENABLE THEN (config.EB_LAMBDA * row.eb_sigma) \div 10 ELSE 0
        base == IF risk < 0 THEN 0 ELSE risk
        more == IF silent THEN base + RESPONSE_PENALTY ELSE base
    IN  IF more < 0 THEN 0 ELSE more

\* float("nan") in the columns eb_p_hat and eb_sigma
NaN == 0 - ONE

\* attend_prob_raw (main.py 1042-1046)
attend_prob_raw(row, config, prior) ==
    LET base_show == IF row.has_history THEN ONE - row.w_noshow_rate ELSE ONE - prior
    IN  clip(IF config.EB_ENABLE /\ row.eb_p_hat # NaN THEN ONE - row.eb_p_hat
             ELSE base_show, 0, ONE)

\* min(max(x, 0.0), 1.0) of a value given in hundredths
unit_clamp(hundredths) == clip(hundredths * HUNDREDTH, 0, ONE)

\* attend_prob before the hard-commitment floor (main.py 1047-1054)
compose_attend(raw, risk, silent, multiplier) ==
    LET a == clip(raw - risk, 0, ONE)
    IN  IF silent THEN clip((a * (unit_clamp(multiplier) \div HUNDREDTH)) \div 100, 0, ONE)
        ELSE a

\* risk_penalty, attend_prob_raw and attend_prob of every pool row
ComposeProb ==
    /\ mpc = "compose"
    /\ pool' = [c \in DOMAIN pool |->
                  LET row == pool[c]
                      risk == risk_penalty(row, c \in noresp_canons, cfg)
                      raw == attend_prob_raw(row, cfg, prior_with_pad)
                  IN  [has_history |-> row.has_history,
                       w_noshow_rate |-> row.w_noshow_rate,
                       eb_p_hat |-> IF cfg.EB_ENABLE THEN row.eb_p_hat ELSE NaN,
                       eb_sigma |-> IF cfg.EB_ENABLE THEN row.eb_sigma ELSE NaN,
                       risk_penalty |-> risk, attend_prob_raw |-> raw,
                       attend_prob |-> compose_attend(raw, risk, c \in noresp_canons,
                                          attendance_config.no_response_multiplier)]]
    /\ mpc' = IF event_signups = <<>> THEN "report" ELSE "loop"
    /\ UNCHANGED <<event_signups, in_alliance_set, absent_now, pool_pref, row_no,
                   capacities_remaining, seen_forced, forced_signups,
                   invalid_forced_signups, forced_count_snapshot,
                   overbooked_forced_signups, signup_file_entries,
                   target_caps_by_group_role>>
    /\ UNCHANGED <<event_responses, decline_canons, noresp_canons, cfg, prior_with_pad,
                   attendance_config>>
    /\ UNCHANGED rosterVars
    /\ UNCHANGED outsideSignup

\* variant: a player without a response is not raised
hard_floor_unless_silent(f, seen, silent, floor) ==
    [c \in DOMAIN f |->
        IF c \in seen /\ c \notin silent /\ f[c].attend_prob < unit_clamp(floor)
        THEN [f[c] EXCEPT !.attend_prob = unit_clamp(floor)]
        ELSE f[c]]

\* pool.loc[hard_mask, "attend_prob"].clip(lower=hard_floor)
hard_floor(f, seen, silent, floor) ==
    [c \in DOMAIN f |->
        IF c \in seen /\ f[c].attend_prob < unit_clamp(floor)
        THEN [f[c] EXCEPT !.attend_prob = unit_clamp(floor)]
        ELSE f[c]]

\* the floor for accepted hard signups (main.py 1265-1268)
HardFloor ==
    /\ mpc = "call"
    /\ pool' = IF seen_forced # {}
               THEN hard_floor(pool, seen_forced, noresp_canons,
                               attendance_config.hard_commit_floor)
               ELSE pool
    /\ mpc' = "floored"
    /\ UNCHANGED <<event_signups, in_alliance_set, absent_now, pool_pref, row_no,
                   capacities_remaining, seen_forced, forced_signups,
                   invalid_forced_signups, forced_count_snapshot,
                   overbooked_forced_signups, signup_file_entries,
                   target_caps_by_group_role>>
    /\ UNCHANGED <<event_responses, decline_canons, noresp_canons, cfg, prior_with_pad,
                   attendance_config>>
    /\ UNCHANGED rosterVars
    /\ UNCHANGED outsideSignup

SignupNext ==
    ApplyResponses \/ ComposeProb \/ ProcessRow \/ Report \/ HardFloor \/ BuildCall

(* Inputs of the signup stage *)

MaxMixed == 3      \* rows of a signup file drawn from signup_rows
MaxSignups == 11   \* rows of a signup file of distinct eligible players
MaxUniform == 21   \* rows of a signup file that all name the same slot

\* alliance members who are neither absent nor declined, by file position
members == <<"m01", "m02", "m03", "m04", "m05", "m06", "m07", "m08", "m09",
             "m10", "m11", "m12", "m13", "m14", "m15", "m16", "m17", "m18",
             "m19", "m20", "m21", "m22", "m23", "m24">>

\* pool columns of a player: [has_history, w_noshow_rate, eb_p_hat, eb_sigma],
\* the rates in millionths
PoolStats(history, rate, p_hat, sigma) ==
    [has_history |-> history, w_noshow_rate |-> rate * HUNDREDTH,
     eb_p_hat |-> p_hat * HUNDREDTH, eb_sigma |-> sigma * HUNDREDTH]

\* File rows <<PlayerName, Group, Role, Commitment>>.  ann and bob are
\* eligible (bob prefers team B); cy is no member and absent; dee is an
\* absent member; eve is a member who declined.
signup_rows ==
    { <<"Ann", "A", "Start", "hard">>, <<"Annie", "b", "ersatz", "HARD">>,
      <<"ann", "", "", "hard">>, <<"Bob", "", "", "hard">>,
      <<"Bob", "A", "", "hard">>, <<"bob", "X", "Bench", "hard">>,
      <<"Ann", "A", "Start", "none">>, <<"Bob", "B", "Start", "maybe">>,
      <<"<U+200B>", "A", "Start", "hard">>, <<"Cy", "A", "Start", "hard">>,
      <<"Dee", "A", "Start", "hard">>, <<"Eve", "A", "Ersatz", "hard">>,
      <<"", "A", "Start", "hard">> }

\* slot choices of the rows of a file of distinct eligible players
slot_choices == { <<"A", "Ersatz">>, <<"", "">> }
uniform_choices == { <<"A", "Start">>, <<"b", "ersatz">>, <<"", "">> }

SignupFile ==
    \/ \E n \in 0..MaxMixed : \E f \in [1..n -> signup_rows] :
           event_signups = _load_event_signups(f, 1)
    \/ \E n \in 0..MaxSignups : \E f \in [1..n -> slot_choices] :
           event_signups = _load_event_signups(
               [i \in 1..n |-> <<members[i], f[i][1], f[i][2], "hard">>], 1)
    \/ \E n \in 0..MaxUniform : \E c \in uniform_choices :
           event_signups = _load_event_signups(
               [i \in 1..n |-> <<members[i], c[1], c[2], "hard">>], 1)

\* the allocator has not been called
RosterIdle ==
    /\ probs_df = <<>>
    /\ forced_assignments = <<>>
    /\ capacities_by_group_role = <<>>
    /\ has_events_seen = TRUE
    /\ start_no_data_cap = 0
    /\ df = <<>>
    /\ caps = ZeroCount
    /\ used = {}
    /\ rows = <<>>
    /\ forced_count = ZeroCount
    /\ start_no_data_taken = [g \in GroupSet |-> 0]
    /\ slot = 1
    /\ pc = "idle"
    /\ error = NoError

\* main() before the loop over the signups (main.py 1097-1110)
SignupInit ==
    /\ RosterIdle
    /\ ThresholdIdle
    /\ StatsIdle
    /\ SignupFile
    /\ in_alliance_set = Range(members) \cup {"ann", "bob", "dee", "eve"}
    /\ absent_now = {"cy", "dee"}
    /\ pool_pref = [c \in in_alliance_set \ absent_now |->
                       IF c \in {"bob", "m02"} THEN "b" ELSE ""]
    /\ event_responses = _load_event_responses(<< <<"Eve", "decline">> >>, 1)
    /\ decline_canons = {}
    /\ noresp_canons = {}
    /\ pool = [c \in in_alliance_set \ absent_now |-> PoolStats(TRUE, 20, 20, 10)]
    /\ cfg = [EB_ENABLE |-> TRUE, EB_LAMBDA |-> 2]
    /\ prior_with_pad = 20 * HUNDREDTH
    /\ attendance_config = [no_response_multiplier |-> 65, hard_commit_floor |-> 92]
    /\ row_no = 0
    /\ capacities_remaining = [g \in GroupSet |-> [r \in RoleSet |-> full_capacity(r)]]
    /\ seen_forced = {}
    /\ forced_signups = <<>>
    /\ invalid_forced_signups = <<>>
    /\ forced_count_snapshot = ZeroCount
    /\ overbooked_forced_signups = <<>>
    /\ signup_file_entries = <<>>
    /\ target_caps_by_group_role = ZeroCount
    /\ mpc = "responses"

SpecSignups == SignupInit /\ [][SignupNext]_vars

(* The same pipeline with responses, statistics and configuration varied. *)

MaxResponses == 2
MaxComposeRows == 2

\* file rows <<PlayerName, Status>> of event_responses.csv
response_rows ==
    { <<"Ann", "no_response">>, <<"Ann", "Declined">>, <<"Eve", "absage">>,
      <<"Bob", "">>, <<"Bob", "maybe">> }

compose_signup_rows ==
    { <<"Ann", "A", "Start", "hard">>, <<"Eve", "B", "", "hard">>,
      <<"Bob", "A", "Start", "maybe">> }

\* (has_history, w_noshow_rate, eb_p_hat, eb_sigma) of ann, in hundredths
ann_stats == { PoolStats(TRUE, 20, 25, 10), PoolStats(FALSE, 0, 18, 40),
               PoolStats(TRUE, 100, 95, 30) }

\* cfg.EB_ENABLE, cfg.EB_LAMBDA (tenths), no_response_multiplier and
\* hard_commit_floor (hundredths)
compose_configs ==
    { <<TRUE, 2, 65, 92>>, <<FALSE, 2, 65, 92>>, <<TRUE, 2, 150, -10>>,
      <<TRUE, 0, -20, 120>> }

ComposeInit ==
    /\ RosterIdle
    /\ ThresholdIdle
    /\ StatsIdle
    /\ \E n \in 0..MaxComposeRows : \E f \in [1..n -> compose_signup_rows] :
           event_signups = _load_event_signups(f, 1)
    /\ \E n \in 0..MaxResponses : \E f \in [1..n -> response_rows] :
           event_responses = _load_event_responses(f, 1)
    /\ in_alliance_set = {"ann", "bob", "dee", "eve"}
    /\ absent_now = {"dee"}
    /\ pool_pref = [c \in in_alliance_set \ absent_now |->
                       IF c = "bob" THEN "b" ELSE ""]
    /\ decline_canons = {}
    /\ noresp_canons = {}
    /\ \E st \in ann_stats :
           pool = [c \in in_alliance_set \ absent_now |->
                      IF c = "ann" THEN st ELSE PoolStats(TRUE, 20, 20, 10)]
    /\ \E k \in compose_configs :
           /\ cfg = [EB_ENABLE |-> k[1], EB_LAMBDA |-> k[2]]
           /\ attendance_config = [no_response_multiplier |-> k[3],
                                   hard_commit_floor |-> k[4]]
    /\ prior_with_pad = 20 * HUNDREDTH
    /\ row_no = 0
    /\ capacities_remaining = [g \in GroupSet |-> [r \in RoleSet |-> full_capacity(r)]]
    /\ seen_forced = {}
    /\ forced_signups = <<>>
    /\ invalid_forced_signups = <<>>
    /\ forced_count_snapshot = ZeroCount
    /\ overbooked_forced_signups = <<>>
    /\ signup_file_entries = <<>>
    /\ target_caps_by_group_role = ZeroCount
    /\ mpc = "responses"

SpecCompose == ComposeInit /\ [][SignupNext]_vars

-----------------------------------------------------------------------------
(* Part 3: build_deterministic_roster with minimum attend probabilities,   *)
(* the Team B starter fallback and the selection stage, as main.py         *)
(* 1319-1330 calls it and spec 4.5 (5)-(7) describes it.  The table        *)
(* normalisation, the forced placement, the categories and the sort are    *)
(* those of part 1.                                                        *)

\* attend_prob of a candidate: main.py passes it as p_start and p_sub alike
attend_prob(row) == row.p_start

\* the minimum of a slot: {} when none is configured
min_attend(group, role, minStart, minSub) ==
    IF role = "Start" THEN minStart[group] ELSE minSub[group]

\* variant: the threshold gate lets everybody through
meets_minimum_always(row, m) == TRUE

\* the threshold gate of the main stage
meets_minimum(row, m) == \A t \in m : attend_prob(row) >= t

\* variant: the longer history goes first
fallback_before_veteran(a, b) ==
    IF attend_prob(a) # attend_prob(b) THEN attend_prob(a) > attend_prob(b)
    ELSE IF a.events_seen # b.events_seen THEN a.events_seen > b.events_seen
    ELSE name_lt(a.PlayerName, b.PlayerName)

\* order of the fallback pass: attend_prob descending, fewer events_seen
\* first, canonical name ascending
fallback_before(a, b) ==
    IF attend_prob(a) # attend_prob(b) THEN attend_prob(a) > attend_prob(b)
    ELSE IF a.events_seen # b.events_seen THEN a.events_seen < b.events_seen
    ELSE name_lt(a.PlayerName, b.PlayerName)

RECURSIVE fallback_sort(_)
fallback_sort(s) ==
    IF s = <<>> THEN <<>>
    ELSE LET i == CHOOSE i \in 1..Len(s) :
                      \A j \in 1..Len(s) : j # i => fallback_before(s[i], s[j])
         IN  <<s[i]>> \o fallback_sort(SubSeq(s, 1, i - 1) \o SubSeq(s, i + 1, Len(s)))

\* variant: the fallback pass fills the whole capacity
fallback_need_full(minB, cap, placed) ==
    IF minB > 0 /\ placed < cap THEN cap - placed ELSE 0

\* number of starters the fallback pass still has to add to Team B Start
fallback_need(minB, cap, placed) ==
    LET target == IF minB < cap THEN minB ELSE cap
    IN  IF placed < target THEN target - placed ELSE 0

\* the candidates the fallback pass adds: unplaced, below the minimum
fallback_pick(table, usedNames, m, need) ==
    LET below == SelectSeq(table, LAMBDA row :
                     row.PlayerName \notin usedNames /\ ~meets_minimum(row, m))
        sorted == fallback_sort(below)
    IN  SubSeq(sorted, 1, IF need < Len(sorted) THEN need ELSE Len(sorted))

\* the tag of a row placed by the main stage
main_stage(group, role) ==
    IF group = "A" THEN (IF role = "Start" THEN "A-start-main" ELSE "A-sub-main")
    ELSE (IF role = "Start" THEN "B-start-main" ELSE "B-sub-main")

\* normalise the table, read the capacities, place the forced slots
SetupT ==
    /\ pc = "setup"
    /\ LET st == place_forced(forced_assignments, 1,
                    [used |-> {}, rows |-> <<>>, forced_count |-> ZeroCount])
       IN  /\ df' = normalize_df(probs_df)
           /\ caps' = read_caps(capacities_by_group_role)
           /\ used' = st.used
           /\ rows' = st.rows
           /\ forced_count' = st.forced_count
           /\ selection_stage' = [i \in 1..Len(st.rows) |-> "forced"]
    /\ start_no_data_taken' = [g \in GroupSet |-> 0]
    /\ slot' = 1
    /\ pc' = "pick"
    /\ UNCHANGED <<probs_df, forced_assignments, capacities_by_group_role,
                   has_events_seen, start_no_data_cap, error>>
    /\ UNCHANGED <<min_attend_start, min_attend_sub, min_b_starters, allow_unfilled>>
    /\ UNCHANGED outsideThreshold

\* one slot: the main stage above the minimum, then for Team B Start the
\* fallback pass, then the completion check
PickSlotT ==
    /\ pc = "pick"
    /\ LET group == order[slot].group
           role == order[slot].role
           m == min_attend(group, role, min_attend_start, min_attend_sub)
           eligible == SelectSeq(df, LAMBDA row : meets_minimum(row, m))
           res == _pick_for(eligible, used, group, role, caps[group][role],
                            start_no_data_taken[group], guard_enabled, start_no_data_cap)
           need == IF group = "B" /\ role = "Start"
                   THEN fallback_need(min_b_starters, caps[group][role], Len(res.picked))
                   ELSE 0
           extra == fallback_pick(df, used \cup NamesOf(res.picked), m, need)
           picked == res.picked \o extra
           missing == caps[group][role] - Len(picked)
       IN  /\ start_no_data_taken' = [start_no_data_taken EXCEPT ![group] = res.taken]
           /\ IF missing > 0 /\ ~allow_unfilled
              THEN /\ pc' = "raised"
                   /\ error' = [kind |-> "RuntimeError", group |-> group, role |-> role,
                                missing |-> missing]
                   /\ UNCHANGED <<used, rows, slot, selection_stage>>
              ELSE /\ used' = used \cup NamesOf(picked)
                   /\ rows' = rows \o [i \in 1..Len(picked) |->
                                  [PlayerName |-> picked[i].PlayerName,
                                   Group |-> group, Role |-> role]]
                   /\ selection_stage' = selection_stage \o
                          [i \in 1..Len(picked) |->
                              IF i <= Len(res.picked) THEN main_stage(group, role)
                              ELSE "B-start-fallback"]
                   /\ slot' = slot + 1
                   /\ pc' = IF slot = Len(order) THEN "assert" ELSE "pick"
                   /\ UNCHANGED error
    /\ UNCHANGED <<probs_df, forced_assignments, capacities_by_group_role,
                   has_events_seen, start_no_data_cap, df, caps, forced_count>>
    /\ UNCHANGED <<min_attend_start, min_attend_sub, min_b_starters, allow_unfilled>>
    /\ UNCHANGED outsideThreshold

\* the invariants enforced before returning: no player twice; the filled
\* count of a slot equals its target, or never exceeds it when slots may
\* stay empty
failed_assert_unfilled(rs, capsNow, forced, allow) ==
    IF HasDuplicates(rs)
    THEN [kind |-> "AssertionError", group |-> "", role |-> "", missing |-> -1]
    ELSE IF \E g \in GroupSet, r \in RoleSet :
                IF allow THEN CountRows(rs, g, r) > capsNow[g][r] + forced[g][r]
                ELSE CountRows(rs, g, r) # capsNow[g][r] + forced[g][r]
    THEN [kind |-> "AssertionError", group |-> "", role |-> "", missing |-> -1]
    ELSE NoError

FinishT ==
    /\ pc = "assert"
    /\ LET e == failed_assert_unfilled(rows, caps, forced_count, allow_unfilled)
       IN  /\ error' = e
           /\ pc' = IF e = NoError THEN "returned" ELSE "raised"
    /\ UNCHANGED <<probs_df, forced_assignments, capacities_by_group_role,
                   has_events_seen, start_no_data_cap, df, caps, used, rows,
                   forced_count, start_no_data_taken, slot>>
    /\ UNCHANGED thresholdVars
    /\ UNCHANGED outsideThreshold

NextT == SetupT \/ PickSlotT \/ FinishT

(* Inputs of the allocator with thresholds *)

MaxTCands == 3     \* rows of the candidate table
MaxBCap == 2       \* scored capacity of Team B Start
MaxMinB == 2       \* min_b_starters

\* Candidate profiles <<PrefGroup, PrefMode, attend_prob, events_seen>>:
\* above and below the minimum of 60, ties of attend_prob with different
\* history, and a candidate who wants Team A only.
ThresholdProfiles ==
    { <<"B", "soft", 80, 10>>, <<"B", "soft", 50, 10>>, <<"B", "soft", 50, 2>>,
      <<"", "", 40, 0>>, <<"A", "hard", 50, 2>> }

\* Team A Start has no minimum, Team B Start and both benches have 60
InitThreshold ==
    /\ \E n \in 0..MaxTCands : \E f \in [1..n -> ThresholdProfiles] :
          probs_df = [i \in 1..n |-> ProfileRow(PositionNames[i], f[i])]
    /\ forced_assignments \in
          { <<>>, <<[PlayerName |-> "Ann", Group |-> "B", Role |-> "Start"]>> }
    /\ \E a \in 0..1, b \in 0..MaxBCap :
          capacities_by_group_role = CapTable(a, b, 0, 1)
    /\ has_events_seen = TRUE
    /\ start_no_data_cap = 2
    /\ min_attend_start = [g \in GroupSet |-> IF g = "A" THEN {} ELSE {60}]
    /\ min_attend_sub = [g \in GroupSet |-> {60}]
    /\ min_b_starters \in 0..MaxMinB
    /\ allow_unfilled \in BOOLEAN
    /\ selection_stage = <<>>
    /\ first_run = NoRun
    /\ InitRest
    /\ SignupIdle
    /\ ComposeIdle
    /\ StatsIdle

SpecThreshold == InitThreshold /\ [][NextT]_vars

-----------------------------------------------------------------------------
(* Part 4: build_deterministic_roster called a second time with the rows   *)
(* of the candidate table in another order (utils.py 72-323).              *)

\* the orders of n rows
row_orders(n) == {p \in [1..n -> 1..n] : \A i, j \in 1..n : p[i] = p[j] => i = j}

\* the first call is over; the second gets the same rows in any order
Rerun ==
    /\ pc \in {"returned", "raised"}
    /\ first_run = NoRun
    /\ first_run' = [probs_df |-> probs_df, rows |-> rows, pc |-> pc, error |-> error]
    /\ \E p \in row_orders(Len(probs_df)) :
          probs_df' = [i \in 1..Len(probs_df) |-> probs_df[p[i]]]
    /\ df' = <<>>
    /\ caps' = ZeroCount
    /\ used' = {}
    /\ rows' = <<>>
    /\ forced_count' = ZeroCount
    /\ start_no_data_taken' = [g \in GroupSet |-> 0]
    /\ slot' = 1
    /\ pc' = "setup"
    /\ error' = NoError
    /\ UNCHANGED <<forced_assignments, capacities_by_group_role, has_events_seen,
                   start_no_data_cap>>
    /\ UNCHANGED <<signupVars, thresholdVars, composeVars, statsVars>>

NextRerun == Setup \/ PickSlot \/ Finish \/ Rerun

MaxPermRows == 3   \* rows of the candidate table that is reordered

\* profiles that tie on every sort key when repeated, in three categories
PermProfiles ==
    { <<"A", "hard", 75, 4>>, <<"A", "soft", 80, 0>>, <<"", "", 80, 0>>,
      <<"B", "hard", 75, 4>> }

InitRerun ==
    /\ \E n \in 0..MaxPermRows : \E f \in [1..n -> PermProfiles] :
          probs_df = [i \in 1..n |-> ProfileRow(PositionNames[i], f[i])]
    /\ forced_assignments = <<>>
    /\ capacities_by_group_role \in {CapTable(1, 1, 0, 0), CapTable(2, 0, 1, 0)}
    /\ has_events_seen = TRUE
    /\ start_no_data_cap = 1
    /\ InitRest
    /\ SignupIdle
    /\ ThresholdIdle
    /\ ComposeIdle
    /\ StatsIdle

SpecRerun == InitRerun /\ [][NextRerun]_vars

-----------------------------------------------------------------------------
(* Part 5: eb_rate and compute_team_prior (src/src/stats.py).  A float is   *)
(* a pair <<numerator, denominator>> in lowest terms with a positive       *)
(* denominator; <<0, 0>> is nan, <<1, 0>> is inf and <<-1, 0>> is -inf.     *)
(* The arithmetic is exact.  sigma = sqrt(var) is returned as its square.  *)

RECURSIVE gcd(_, _)
gcd(a, b) == IF b = 0 THEN a ELSE gcd(b, a % b)

Abs(x) == IF x < 0 THEN 0 - x ELSE x

\* the float n / d, d # 0
Q(n, d) ==
    LET g == gcd(Abs(n), Abs(d))
        sign == IF d < 0 THEN 0 - 1 ELSE 1
    IN  <<(sign * n) \div g, (sign * d) \div g>>

Zero == <<0, 1>>
Unit == <<1, 1>>
nan == <<0, 0>>
inf == <<1, 0>>

isfinite(a) == a[2] # 0

fadd(a, b) == Q(a[1] * b[2] + b[1] * a[2], a[2] * b[2])
fsub(a, b) == Q(a[1] * b[2] - b[1] * a[2], a[2] * b[2])
fmul(a, b) == Q(a[1] * b[1], a[2] * b[2])
fdiv(a, b) == Q(a[1] * b[2], a[2] * b[1])

\* a < b; False when either side is nan
lt(a, b) == a[1] * b[2] < b[1] * a[2]

\* max(a, b) and min(a, b) of Python: the first argument unless the second
\* is greater (smaller)
py_max(a, b) == IF lt(a, b) THEN b ELSE a
py_min(a, b) == IF lt(b, a) THEN b ELSE a

\* math.floor and math.ceil of a float that is not negative
floor(a) == a[1] \div a[2]
ceil(a) == (a[1] + a[2] - 1) \div a[2]

\* variant: the no-show count is taken as given
clamp_s_none(s, n) == s

\* s = min(max(s, 0.0), n)
clamp_s(s, n) == py_min(py_max(s, Zero), n)

\* eb_rate; the result is [p_hat, sigma_sq] with sigma = sqrt(sigma_sq)
eb_rate(s_arg, n_arg, p0_arg, n0_arg) ==
    LET p0 == py_min(py_max(p0_arg, Zero), Unit)
        n == py_max(n_arg, Zero)
        s == clamp_s(s_arg, n)
        n0 == py_max(n0_arg, Zero)
        alpha0 == fmul(p0, n0)
        beta0 == fmul(fsub(Unit, p0), n0)
        alpha == fadd(alpha0, s)
        beta == fadd(beta0, fsub(n, s))
        total == fadd(alpha, beta)
        var == IF lt(Unit, total)
               THEN fdiv(fmul(alpha, beta),
                         fmul(fmul(total, total), fadd(total, Unit)))
               ELSE Zero
    IN  IF ~lt(Zero, total) THEN [p_hat |-> p0, sigma_sq |-> Zero]
        ELSE [p_hat |-> fdiv(alpha, total), sigma_sq |-> py_max(var, Zero)]

\* variant: the lower neighbour instead of the interpolation
_quantile_low(sorted_vals, q) ==
    IF sorted_vals = <<>> THEN Zero
    ELSE sorted_vals[floor(fmul(py_min(py_max(q, Zero), Unit),
                                <<Len(sorted_vals) - 1, 1>>)) + 1]

\* _quantile; the list positions of the source are 0-based
_quantile(sorted_vals, q) ==
    IF sorted_vals = <<>> THEN Zero
    ELSE LET pos == fmul(py_min(py_max(q, Zero), Unit), <<Len(sorted_vals) - 1, 1>>)
             low == floor(pos)
             high == ceil(pos)
             frac == fsub(pos, <<low, 1>>)
         IN  IF low = high THEN sorted_vals[low + 1]
             ELSE fadd(sorted_vals[low + 1],
                       fmul(fsub(sorted_vals[high + 1], sorted_vals[low + 1]), frac))

RECURSIVE clean_rates(_, _)
\* the loop that keeps the finite rates in [0, 1]
clean_rates(rates, i) ==
    IF i > Len(rates) THEN <<>>
    ELSE IF ~isfinite(rates[i]) \/ lt(rates[i], Zero) \/ lt(Unit, rates[i])
    THEN clean_rates(rates, i + 1)
    ELSE <<rates[i]>> \o clean_rates(rates, i + 1)

RECURSIVE insert_float(_, _)
insert_float(sorted, v) ==
    IF sorted = <<>> THEN <<v>>
    ELSE IF lt(v, Head(sorted)) THEN <<v>> \o sorted
    ELSE <<Head(sorted)>> \o insert_float(Tail(sorted), v)

RECURSIVE sort_floats(_)
\* clean.sort()
sort_floats(vals) ==
    IF vals = <<>> THEN <<>>
    ELSE insert_float(sort_floats(Tail(vals)), Head(vals))

RECURSIVE sum(_)
sum(vals) == IF vals = <<>> THEN Zero ELSE fadd(Head(vals), sum(Tail(vals)))

\* len(clean) >= 10
WINSOR_MIN == 10

\* compute_team_prior
compute_team_prior(rates, winsor, fallback) ==
    LET clean == sort_floats(clean_rates(rates, 1))
        lower == _quantile(clean, Q(5, 100))
        upper == _quantile(clean, Q(95, 100))
        clipped == [i \in 1..Len(clean) |-> py_min(py_max(clean[i], lower), upper)]
        mean == IF winsor /\ Len(clean) >= WINSOR_MIN
                THEN fdiv(sum(clipped), <<Len(clean), 1>>)
                ELSE IF winsor THEN fallback
                ELSE fdiv(sum(clean), <<Len(clean), 1>>)
        clamped == py_min(py_max(mean, Zero), Unit)
    IN  IF clean = <<>> THEN fallback
        ELSE IF ~isfinite(clamped) THEN fallback
        ELSE clamped

\* a call of eb_rate returns
EbRate ==
    /\ call_args # NoCall
    /\ call_args.fn = "eb_rate"
    /\ call_result = NoCall
    /\ call_result' = eb_rate(<<call_args.s, 1>>, <<call_args.n, 1>>,
                              call_args.p0, call_args.n0)
    /\ UNCHANGED call_args
    /\ UNCHANGED <<rosterVars, signupVars, thresholdVars, rerunVars, composeVars>>

\* a call of compute_team_prior returns
ComputeTeamPrior ==
    /\ call_args # NoCall
    /\ call_args.fn = "compute_team_prior"
    /\ call_result = NoCall
    /\ call_result' = [p0 |-> compute_team_prior(call_args.rates, call_args.winsor,
                                                 call_args.fallback)]
    /\ UNCHANGED call_args
    /\ UNCHANGED <<rosterVars, signupVars, thresholdVars, rerunVars, composeVars>>

StatsNext == EbRate \/ ComputeTeamPrior

MaxEvents == 5
MaxRates == 3
MaxLong == 11

prior_values == { Q(0 - 1, 5), Zero, Q(1, 5), Q(3, 5), Unit, Q(3, 2) }
strength_values == { Q(0 - 1, 1), Zero, Q(1, 2), Unit, Q(4, 1) }

\* the arguments of a call of eb_rate
InitEb ==
    \E s \in (0 - 1)..(MaxEvents + 1), n \in (0 - 1)..MaxEvents,
       p0 \in prior_values, n0 \in strength_values :
        call_args = [fn |-> "eb_rate", s |-> s, n |-> n, p0 |-> p0, n0 |-> n0]

rate_values == { nan, inf, Q(0 - 1, 10), Zero, Q(1, 5), Q(1, 2), Unit, Q(11, 10) }
fallback_values == { Q(9, 50), Zero, Q(3, 2), Q(0 - 1, 2), nan }

\* three rates, lowest first, of the long lists
rate_triples == { <<Zero, Q(1, 5), Unit>>, <<Q(1, 10), Q(3, 10), Q(1, 2)>> }

\* the arguments of a call of compute_team_prior: any short list, or a long
\* list of three rates in descending order, with or without two values that
\* are discarded in front
InitPrior ==
    \E winsor \in BOOLEAN, fallback \in fallback_values :
        \/ \E n \in 0..MaxRates : \E rates \in [1..n -> rate_values] :
               call_args = [fn |-> "compute_team_prior", rates |-> rates,
                            winsor |-> winsor, fallback |-> fallback]
        \/ \E n \in (WINSOR_MIN - 1)..MaxLong : \E k2 \in 0..n : \E k1 \in 0..(n - k2) :
           \E t \in rate_triples : \E junk \in {<<>>, <<nan, Q(3, 2)>>} :
               call_args = [fn |-> "compute_team_prior",
                            rates |-> junk \o [i \in 1..n |->
                                         IF i <= k2 THEN t[3]
                                         ELSE IF i <= k2 + k1 THEN t[2] ELSE t[1]],
                            winsor |-> winsor, fallback |-> fallback]

InitStats ==
    /\ InitEb \/ InitPrior
    /\ call_result = NoCall
    /\ RosterIdle
    /\ SignupIdle
    /\ ThresholdIdle
    /\ ComposeIdle

SpecStats == InitStats /\ [][StatsNext]_vars

-----------------------------------------------------------------------------
(* Part 6: _prep and compute_player_history (src/src/stats.py) with        *)
(* exp_decay_weight and parse_event_date (src/src/utils.py).  Dates are    *)
(* day numbers; the ages of the events are whole multiples of the          *)
(* half-life, so that every weight is an exact power of 1/2.               *)

\* parse_event_date: the day of an EventID, counted from 2025-01-01
parse_event_date(event_id) ==
    CASE event_id = "DS-2025-01-01-A" -> 0
      [] event_id = "DS-2025-01-04-A" -> 3
      [] event_id = "DS-2025-01-06-A" -> 5
      [] event_id = "DS-2025-03-02-A" -> 60

RECURSIVE pow2(_)
pow2(k) == IF k = 0 THEN 1 ELSE 2 * pow2(k - 1)

\* variant: every record weighs the same
exp_decay_weight_flat(event_day, now_day, half_life_days) == Unit

\* exp_decay_weight: 0.5 ** (delta_days / hl), delta_days = max(0, age)
exp_decay_weight(event_day, now_day, half_life_days) ==
    LET delta_days == IF now_day - event_day < 0 THEN 0 ELSE now_day - event_day
    IN  IF half_life_days <= 0 THEN Unit
        ELSE Q(1, pow2(delta_days \div half_life_days))

\* pd.to_numeric(...).fillna(0).astype(int).clip(0, 1)
teilgenommen(v) == clip(v, 0, 1)

\* variant: one row without a show is enough to drop the event
missing_events_any(recs) ==
    {id \in {recs[i].EventID : i \in 1..Len(recs)} :
        LET of_event == {i \in 1..Len(recs) : recs[i].assigned /\ recs[i].EventID = id}
        IN  /\ \A i \in of_event : recs[i].Teilgenommen <= 0
            /\ Cardinality(of_event) >= 1}

\* the events whose Start/Ersatz rows sum to no show and number at least 3
\* (stats.py 160-167)
missing_events(recs) ==
    {id \in {recs[i].EventID : i \in 1..Len(recs)} :
        LET of_event == {i \in 1..Len(recs) : recs[i].assigned /\ recs[i].EventID = id}
        IN  /\ \A i \in of_event : recs[i].Teilgenommen <= 0
            /\ Cardinality(of_event) >= 3}

RECURSIVE keep_rows(_, _, _)
\* df[~df["EventID"].isin(missing_events)]
keep_rows(recs, gone, i) ==
    IF i > Len(recs) THEN <<>>
    ELSE IF recs[i].EventID \in gone THEN keep_rows(recs, gone, i + 1)
    ELSE <<recs[i]>> \o keep_rows(recs, gone, i + 1)

\* _prep: raw rows <<PlayerName, EventID, RoleAtRegistration, Teilgenommen>>,
\* with EffectiveSignupState as an optional fifth column; the
\* reliability_start_date is {} for None or {day}
_prep(events, half_life_days, reference_day, reliability_start_date) ==
    LET since == SelectSeq(events, LAMBDA ev :
                     \A start \in reliability_start_date : parse_event_date(ev[2]) >= start)
        recs == [i \in 1..Len(since) |->
                    [PlayerName |-> canonical_name(since[i][1]),
                     EventID |-> since[i][2],
                     Teilgenommen |-> teilgenommen(since[i][4]),
                     effective_signup_state |-> IF Len(since[i]) >= 5 THEN since[i][5] ELSE "",
                     w |-> exp_decay_weight(parse_event_date(since[i][2]),
                                            reference_day, half_life_days),
                     assigned |-> since[i][3] \in {"Start", "Ersatz"}]]
    IN  keep_rows(recs, missing_events(recs), 1)

RECURSIVE count_rows(_, _, _)
\* the rows of player p: how many, or how many with a show
count_rows(recs, p, shows_only) ==
    IF recs = <<>> THEN 0
    ELSE (IF Head(recs).PlayerName = p /\ (~shows_only \/ Head(recs).Teilgenommen = 1)
          THEN 1 ELSE 0) + count_rows(Tail(recs), p, shows_only)

RECURSIVE weigh_rows(_, _, _)
\* the sum of w, or of Teilgenommen * w, over the rows of player p
weigh_rows(recs, p, shows_only) ==
    IF recs = <<>> THEN Zero
    ELSE fadd(IF Head(recs).PlayerName = p /\ (~shows_only \/ Head(recs).Teilgenommen = 1)
              THEN Head(recs).w ELSE Zero,
              weigh_rows(Tail(recs), p, shows_only))

\* compute_player_history: per player the totals and the rates
compute_player_history(events, half_life_days, reference_day) ==
    LET prepared == _prep(events, half_life_days, reference_day, {})
        dfa == SelectSeq(prepared, LAMBDA row : row.assigned)
    IN  [p \in {dfa[i].PlayerName : i \in 1..Len(dfa)} |->
            LET assignments == count_rows(dfa, p, FALSE)
                shows == count_rows(dfa, p, TRUE)
                w_assignments == weigh_rows(dfa, p, FALSE)
                w_shows == weigh_rows(dfa, p, TRUE)
            IN  [assignments_total |-> assignments,
                 shows_total |-> shows,
                 noshows_total |-> assignments - shows,
                 noshow_rate |-> fsub(Unit, IF assignments > 0
                                            THEN Q(shows, assignments) ELSE Zero),
                 w_assignments_total |-> w_assignments,
                 w_shows_total |-> w_shows,
                 w_noshow_rate |-> fsub(Unit, IF lt(Zero, w_assignments)
                                              THEN fdiv(w_shows, w_assignments)
                                              ELSE Zero)]]

\* a call of compute_player_history returns
ComputePlayerHistory ==
    /\ call_args # NoCall
    /\ call_args.fn = "compute_player_history"
    /\ call_result = NoCall
    /\ call_result' = [hist |-> compute_player_history(call_args.events,
                                   call_args.half_life_days, call_args.reference_day)]
    /\ UNCHANGED call_args
    /\ UNCHANGED <<rosterVars, signupVars, thresholdVars, rerunVars, composeVars>>

MaxHistoryRows == 4

\* rows <<PlayerName, EventID, RoleAtRegistration, Teilgenommen>> of events
history_rows ==
    { <<"Ann", "DS-2025-01-01-A", "Start", 0>>, <<"Ann", "DS-2025-03-02-A", "Start", 1>>,
      <<"Ann", "DS-2025-03-02-A", "Start", 0>>, <<"Bob", "DS-2025-01-01-A", "Start", 0>>,
      <<"Bob", "DS-2025-01-01-A", "Ersatz", 0>>, <<"Bob", "DS-2025-03-02-A", "Ersatz", 2>>,
      <<"Ann", "DS-2025-01-01-A", "Off", 1>>, <<"ann", "DS-2025-01-01-A", "Start", 1>> }

\* half_life_days and the day of reference_dt
history_configs == { <<10, 60>>, <<20, 60>>, <<0, 60>>, <<10, 0 - 20>> }

InitHistory ==
    /\ \E n \in 0..MaxHistoryRows : \E events \in [1..n -> history_rows] :
       \E k \in history_configs :
           call_args = [fn |-> "compute_player_history", events |-> events,
                        half_life_days |-> k[1], reference_day |-> k[2]]
    /\ call_result = NoCall
    /\ RosterIdle
    /\ SignupIdle
    /\ ThresholdIdle
    /\ ComposeIdle

SpecHistory == InitHistory /\ [][ComputePlayerHistory]_vars

-----------------------------------------------------------------------------
(* compute_player_reliability (src/src/stats.py): rows of events carry a   *)
(* fifth column EffectiveSignupState.                                      *)

\* _extract_effective_state: the state of the column, "" for None (a
\* missing, empty or unknown value)
_extract_effective_state(value) ==
    IF value \in {"none", "hard_active", "cancelled_early", "cancelled_late"}
    THEN value ELSE ""

NoReliability ==
    [events |-> 0, attendance |-> 0, no_shows |-> 0, early_cancels |-> 0,
     late_cancels |-> 0]

\* variant: the attendance of a cancelled row is counted as well
reliability_step_attended(current, state, attended) ==
    [events |-> current.events + 1,
     attendance |-> current.attendance + attended,
     no_shows |-> current.no_shows +
                  (IF state \notin {"cancelled_early", "cancelled_late"} /\ attended = 0
                   THEN 1 ELSE 0),
     early_cancels |-> current.early_cancels + (IF state = "cancelled_early" THEN 1 ELSE 0),
     late_cancels |-> current.late_cancels + (IF state = "cancelled_late" THEN 1 ELSE 0)]

\* the counters of a player after one more row (stats.py 493-516)
reliability_step(current, state, attended) ==
    IF state = "cancelled_early"
    THEN [current EXCEPT !.events = @ + 1, !.early_cancels = @ + 1]
    ELSE IF state = "cancelled_late"
    THEN [current EXCEPT !.events = @ + 1, !.late_cancels = @ + 1]
    ELSE [current EXCEPT !.events = @ + 1,
                         !.attendance = @ + attended,
                         !.no_shows = @ + (IF attended = 0 THEN 1 ELSE 0)]

RECURSIVE reliability_loop(_, _, _)
\* for row in dfa.itertuples (stats.py 477-516)
reliability_loop(dfa, i, stats) ==
    IF i > Len(dfa) THEN stats
    ELSE LET player == dfa[i].PlayerName
             extracted == _extract_effective_state(dfa[i].effective_signup_state)
             state == IF extracted = "" THEN "hard_active" ELSE extracted
         IN  IF state = "none" THEN reliability_loop(dfa, i + 1, stats)
             ELSE LET current == IF player \in DOMAIN stats THEN stats[player]
                                 ELSE NoReliability
                      after == reliability_step(current, state, dfa[i].Teilgenommen)
                  IN  reliability_loop(dfa, i + 1,
                          [p \in (DOMAIN stats) \cup {player} |->
                              IF p = player THEN after ELSE stats[p]])

\* compute_player_reliability
compute_player_reliability(events, half_life_days, reference_day, reliability_start_date) ==
    LET prepared == _prep(events, half_life_days, reference_day, reliability_start_date)
        dfa == SelectSeq(prepared, LAMBDA row : row.assigned)
    IN  reliability_loop(dfa, 1, <<>>)

\* a call of compute_player_reliability returns
ComputePlayerReliability ==
    /\ call_args # NoCall
    /\ call_args.fn = "compute_player_reliability"
    /\ call_result = NoCall
    /\ call_result' = [stats |-> compute_player_reliability(call_args.events,
                                     call_args.half_life_days, call_args.reference_day,
                                     call_args.reliability_start_date)]
    /\ UNCHANGED call_args
    /\ UNCHANGED <<rosterVars, signupVars, thresholdVars, rerunVars, composeVars>>

MaxReliabilityRows == 3

\* rows <<PlayerName, EventID, RoleAtRegistration, Teilgenommen,
\* EffectiveSignupState>> of events
reliability_rows ==
    { <<"Ann", "DS-2025-01-01-A", "Start", 1, "hard_active">>,
      <<"Ann", "DS-2025-03-02-A", "Start", 0, "hard_active">>,
      <<"Ann", "DS-2025-03-02-A", "Start", 1, "cancelled_early">>,
      <<"Ann", "DS-2025-03-02-A", "Ersatz", 0, "cancelled_late">>,
      <<"ann", "DS-2025-03-02-A", "Start", 1, "none">>,
      <<"Ann", "DS-2025-03-02-A", "Start", 0, "none">>,
      <<"Bob", "DS-2025-03-02-A", "Start", 2, "">>,
      <<"Bob", "DS-2025-03-02-A", "Start", 0, "bogus">>,
      <<"Bob", "DS-2025-01-01-A", "Off", 1, "cancelled_late">>,
      <<"Bob", "DS-2025-03-02-A", "Start", 1, "cancelled_late">> }

\* reliability_start_date: None or 2025-01-31
reliability_start_dates == { {}, {30} }

InitReliability ==
    /\ \E n \in 0..MaxReliabilityRows : \E events \in [1..n -> reliability_rows] :
       \E start \in reliability_start_dates :
           call_args = [fn |-> "compute_player_reliability", events |-> events,
                        half_life_days |-> 10, reference_day |-> 60,
                        reliability_start_date |-> start]
    /\ call_result = NoCall
    /\ RosterIdle
    /\ SignupIdle
    /\ ThresholdIdle
    /\ ComposeIdle

SpecReliability == InitReliability /\ [][ComputePlayerReliability]_vars

-----------------------------------------------------------------------------
(* Part 7: signup_deadline_for_event and determine_effective_signup_states *)
(* (src/src/effective_signups.py).  A local datetime is a number of        *)
(* minutes of wall-clock time since Monday 2024-12-02 00:00; a             *)
(* response_time is {} for None or {t}.                                    *)

MINUTES_PER_DAY == 24 * 60

\* datetime.combine(date, time(hour, minute))
combine(day, minute) == day * MINUTES_PER_DAY + minute
date_of(dt) == dt \div MINUTES_PER_DAY

\* datetime.weekday(): Monday is 0
weekday(dt) == date_of(dt) % 7

\* variant: the deadline is the event itself
signup_deadline_at_event(event_datetime_local) == event_datetime_local

\* signup_deadline_for_event: 03:00 on the Thursday on or before the event's day
signup_deadline_for_event(event_datetime_local) ==
    LET days_since_thursday == (weekday(event_datetime_local) - 3) % 7
        deadline_date == date_of(event_datetime_local - days_since_thursday * MINUTES_PER_DAY)
    IN  combine(deadline_date, 3 * 60)

\* datetime.min, the key of a response without a time
MinTime == 0 - 1

\* _key of _latest_response_by_canon
response_key(resp) ==
    IF resp.response_time = {} THEN MinTime
    ELSE CHOOSE t \in resp.response_time : TRUE

RECURSIVE _latest_response_by_canon(_, _, _)
\* the loop of _latest_response_by_canon from response i on
_latest_response_by_canon(responses, latest, i) ==
    IF i > Len(responses) THEN latest
    ELSE LET resp == responses[i]
         IN  IF resp.canon = "" THEN _latest_response_by_canon(responses, latest, i + 1)
             ELSE IF resp.canon \notin DOMAIN latest
                     \/ response_key(resp) >= response_key(latest[resp.canon])
             THEN _latest_response_by_canon(responses,
                      [c \in (DOMAIN latest) \cup {resp.canon} |->
                          IF c = resp.canon THEN resp ELSE latest[c]], i + 1)
             ELSE _latest_response_by_canon(responses, latest, i + 1)

\* variant: a cancellation at the deadline still counts as early
cancel_state_inclusive(cancellation, deadline) ==
    IF cancellation.response_time = {} THEN "cancelled_late"
    ELSE IF response_key(cancellation) <= deadline THEN "cancelled_early"
    ELSE "cancelled_late"

\* the state of a signup with a cancellation (effective_signups.py 124-133)
cancel_state(cancellation, deadline) ==
    IF cancellation.response_time = {} THEN "cancelled_late"
    ELSE IF response_key(cancellation) < deadline THEN "cancelled_early"
    ELSE "cancelled_late"

\* determine_effective_signup_states: canon -> [state, last_response]
determine_effective_signup_states(signups, responses, event_datetime_local) ==
    LET deadline == signup_deadline_for_event(event_datetime_local)
        cancellations == SelectSeq(responses, LAMBDA r : r.status = "cancelled")
        latest_cancellation_by_canon == _latest_response_by_canon(cancellations, <<>>, 1)
        latest_response_by_canon == _latest_response_by_canon(responses, <<>>, 1)
        signed == {signups[i].canon : i \in 1..Len(signups)}
    IN  [c \in signed \cup DOMAIN latest_response_by_canon |->
            IF c \in signed
            THEN IF c \notin DOMAIN latest_cancellation_by_canon
                 THEN [state |-> "hard_active",
                       last_response |->
                           IF c \in DOMAIN latest_response_by_canon
                           THEN {latest_response_by_canon[c]} ELSE {}]
                 ELSE [state |-> cancel_state(latest_cancellation_by_canon[c], deadline),
                       last_response |-> {latest_cancellation_by_canon[c]}]
            ELSE [state |-> "none", last_response |-> {latest_response_by_canon[c]}]]

\* a call of signup_deadline_for_event returns
SignupDeadline ==
    /\ call_args # NoCall
    /\ call_args.fn = "signup_deadline_for_event"
    /\ call_result = NoCall
    /\ call_result' = [deadline |-> signup_deadline_for_event(call_args.event_datetime_local)]
    /\ UNCHANGED call_args
    /\ UNCHANGED <<rosterVars, signupVars, thresholdVars, rerunVars, composeVars>>

\* a call of determine_effective_signup_states returns
DetermineStates ==
    /\ call_args # NoCall
    /\ call_args.fn = "determine_effective_signup_states"
    /\ call_result = NoCall
    /\ call_result' = [states |-> determine_effective_signup_states(call_args.signups,
                                      call_args.responses, call_args.event_datetime_local)]
    /\ UNCHANGED call_args
    /\ UNCHANGED <<rosterVars, signupVars, thresholdVars, rerunVars, composeVars>>

EffectiveNext == SignupDeadline \/ DetermineStates

MaxDay == 13
MaxEffResponses == 3

\* times of day of an event: 00:00, 01:00, 02:59, 03:00, 03:01, 21:00, 23:59
event_minutes == {0, 60, 179, 180, 181, 1260, 1439}

InitDeadline ==
    \E day \in 0..MaxDay, minute \in event_minutes :
        call_args = [fn |-> "signup_deadline_for_event",
                     event_datetime_local |-> combine(day, minute)]

\* Signup rows of load_hard_signups_for_next_event: distinct canons
effective_signups == { <<>>, <<"alpha">>, <<"alpha", "bravo">>, <<"bravo", "alpha">> }

\* Thursday 2024-12-05 03:00, the deadline of the events of the model
Thursday3 == combine(3, 180)

\* EventResponse rows <<canon, status, response_time>>
effective_responses ==
    { <<"alpha", "cancelled", {}>>, <<"alpha", "cancelled", {Thursday3 - 1}>>,
      <<"alpha", "cancelled", {Thursday3}>>, <<"alpha", "cancelled", {Thursday3 + 1}>>,
      <<"alpha", "no_response", {Thursday3 + 1}>>, <<"alpha", "maybe", {}>>,
      <<"bravo", "cancelled", {Thursday3 - 1}>>, <<"bravo", "no_response", {}>>,
      <<"delta", "no_response", {}>>, <<"delta", "cancelled", {Thursday3 - 1}>> }

\* Friday 2024-12-06 21:00 and Saturday 2024-12-07 12:00
effective_events == { combine(4, 1260), combine(5, 720) }

InitEffective ==
    \E signups \in effective_signups, event \in effective_events :
    \E n \in 0..MaxEffResponses : \E f \in [1..n -> effective_responses] :
        call_args = [fn |-> "determine_effective_signup_states",
                     signups |-> [i \in 1..Len(signups) |-> [canon |-> signups[i]]],
                     responses |-> [i \in 1..n |-> [canon |-> f[i][1], status |-> f[i][2],
                                                    response_time |-> f[i][3]]],
                     event_datetime_local |-> event]

InitEffectiveCalls ==
    /\ InitDeadline \/ InitEffective
    /\ call_result = NoCall
    /\ RosterIdle
    /\ SignupIdle
    /\ ThresholdIdle
    /\ ComposeIdle

SpecEffective == InitEffectiveCalls /\ [][EffectiveNext]_vars

-----------------------------------------------------------------------------
(* Part 8: load_alias_map (src/src/alias_utils.py).  A mapping is a        *)
(* function from canonical names to canonical names; the result of a call  *)
(* is [error, mapping] with error "" when the call returns.                *)

DEFAULT_MAX_ALIAS_DEPTH == 64

RECURSIVE _prepare_raw_mapping(_, _, _)
\* rows <<from_name, to_name>>: canonical names, blank sources dropped, the
\* first row of a source wins, rows onto themselves skipped
_prepare_raw_mapping(alias_rows, i, taken) ==
    IF i > Len(alias_rows) THEN <<>>
    ELSE LET src == canonical_name(alias_rows[i][1])
             dst == canonical_name(alias_rows[i][2])
             rest == _prepare_raw_mapping(alias_rows, i + 1, taken \cup {src})
         IN  IF src = "" \/ src \in taken \/ src = dst THEN rest
             ELSE [c \in {src} \cup DOMAIN rest |-> IF c = src THEN dst ELSE rest[c]]

RECURSIVE comes_back(_, _, _, _)
\* whether following the rules from current leads to node within the given
\* number of steps: node is pushed on the stack twice by dfs
comes_back(graph, node, current, steps) ==
    IF steps = 0 \/ current \notin DOMAIN graph THEN FALSE
    ELSE graph[current] = node \/ comes_back(graph, node, graph[current], steps - 1)

\* _prune_cycles: the rules of the nodes on a cycle are removed
_prune_cycles(raw_map) ==
    LET cycle_nodes == {n \in DOMAIN raw_map :
                           comes_back(raw_map, n, n, Cardinality(DOMAIN raw_map))}
    IN  [graph |-> [c \in (DOMAIN raw_map) \ cycle_nodes |-> raw_map[c]],
         cycle_nodes |-> cycle_nodes]

RECURSIVE follow_alias(_, _, _, _)
\* the inner loop of resolve_alias_map with steps_left iterations to go:
\* [ok, target], ok FALSE for a cycle or a chain that is too long
follow_alias(raw_map, current, seen, steps_left) ==
    IF steps_left = 0 THEN [ok |-> FALSE, target |-> current]
    ELSE IF current \notin DOMAIN raw_map \/ raw_map[current] = current
    THEN [ok |-> TRUE, target |-> current]
    ELSE IF raw_map[current] \in seen THEN [ok |-> FALSE, target |-> current]
    ELSE follow_alias(raw_map, raw_map[current], seen \cup {raw_map[current]},
                      steps_left - 1)

\* resolve_alias_map
resolve_alias_map(raw_map, max_depth) ==
    IF max_depth <= 0 THEN [error |-> "AliasResolutionError", mapping |-> <<>>]
    ELSE LET resolved == [s \in DOMAIN raw_map |->
                             follow_alias(raw_map, s, {s}, max_depth)]
         IN  IF \E s \in DOMAIN raw_map : ~resolved[s].ok
             THEN [error |-> "AliasResolutionError", mapping |-> <<>>]
             ELSE [error |-> "",
                   mapping |-> [k \in {s \in DOMAIN raw_map : resolved[s].target # s} |->
                                   resolved[k].target]]

\* load_alias_map for the rows of the file
load_alias_map(alias_rows, max_depth) ==
    LET raw_map == _prepare_raw_mapping(alias_rows, 1, {})
    IN  IF alias_rows = <<>> \/ DOMAIN raw_map = {} THEN [error |-> "", mapping |-> <<>>]
        ELSE resolve_alias_map(_prune_cycles(raw_map).graph, max_depth)

\* a call of load_alias_map returns or raises
LoadAliasMap ==
    /\ call_args # NoCall
    /\ call_args.fn = "load_alias_map"
    /\ call_result = NoCall
    /\ call_result' = load_alias_map(call_args.alias_rows, call_args.max_depth)
    /\ UNCHANGED call_args
    /\ UNCHANGED <<rosterVars, signupVars, thresholdVars, rerunVars, composeVars>>

MaxAliasRows == 3

\* rows <<from_name, to_name>> of aliases.csv
alias_rows_of_file ==
    { <<"Ann", "Bob">>, <<"Bob", "Cy">>, <<"Cy", "Dee">>, <<"Bob", "Ann">>,
      <<"Cy", "Ann">>, <<"Dee", "Bob">>, <<"ann", "Cy">>, <<"Ann", "ann">>,
      <<"Bob", "Dee">>, <<"", "Ann">> }

max_depths == { 0, 1, 2, 3, DEFAULT_MAX_ALIAS_DEPTH }

InitAlias ==
    /\ \E n \in 0..MaxAliasRows : \E f \in [1..n -> alias_rows_of_file] :
       \E depth \in max_depths :
           call_args = [fn |-> "load_alias_map", alias_rows |-> f, max_depth |-> depth]
    /\ call_result = NoCall
    /\ RosterIdle
    /\ SignupIdle
    /\ ThresholdIdle
    /\ ComposeIdle

SpecAlias == InitAlias /\ [][LoadAliasMap]_vars

-----------------------------------------------------------------------------
(* Part 9: absences for the next event (src/src/main.py).  Timestamps are  *)
(* local minutes since 2025-01-01 00:00 Europe/Zurich; a missing timestamp *)
(* is {} and a present one {t}.  All dates of the model lie in winter      *)
(* time, when local time is UTC plus CET_OFFSET minutes.                   *)

CET_OFFSET == 60

\* _parse_local of _load_absences: pd.to_datetime of the cell, localized
_parse_local(s) ==
    CASE s = "2025-01-06" -> {combine(5, 0)}
      [] s = "2025-01-08" -> {combine(7, 0)}
      [] s = "2025-01-08 23:59" -> {combine(7, 23 * 60 + 59)}
      [] s = "2025-01-09" -> {combine(8, 0)}
      [] OTHER -> {}

\* _load_absences: the columns From_ts and To_ts are added to a row
_load_absences(raw) ==
    [From |-> raw.From, To |-> raw.To, Scope |-> raw.Scope,
     From_ts |-> _parse_local(raw.From), To_ts |-> _parse_local(raw.To)]

\* str.strip().str.lower() of the Scope column
scope_norm(s) ==
    CASE s \in {"next_event", " Next_Event "} -> "next_event"
      [] s \in {"", " "} -> ""
      [] OTHER -> s

\* str.strip() == "" of a From or To cell
is_blank(s) == s \in {"", " "}

\* variant: the To bound is compared by calendar date
_range_active_by_date(row, reference_ts) ==
    /\ \A f \in row.From_ts : ~(reference_ts < f)
    /\ \A t \in row.To_ts : ~(date_of(reference_ts) > date_of(t))

\* _range_active
_range_active(row, reference_ts) ==
    /\ \A f \in row.From_ts : ~(reference_ts < f)
    /\ \A t \in row.To_ts : ~(reference_ts > t)

\* _mark_absences_for_next_event: the column is_absent_next_event
_mark_absences_for_next_event(abs_df, reference_ts) ==
    [i \in 1..Len(abs_df) |->
        LET scope_next == scope_norm(abs_df[i].Scope) = "next_event"
            scope_empty == is_blank(abs_df[i].From) /\ is_blank(abs_df[i].To)
        IN  scope_next \/ scope_empty \/ _range_active(abs_df[i], reference_ts)]

\* the most frequent of the intervals between neighbouring dates, the
\* smallest of them on a tie (Series.mode().iloc[0])
mode_delta(dates) ==
    LET gaps == {<<a, b>> \in dates \X dates :
                    a < b /\ ~\E c \in dates : a < c /\ c < b}
        count(d) == Cardinality({g \in gaps : g[2] - g[1] = d})
        deltas == {g[2] - g[1] : g \in gaps}
        modes == {d \in deltas : \A o \in deltas : count(o) <= count(d)}
    IN  CHOOSE d \in modes : \A o \in modes : d <= o

\* _infer_next_event_ts: the last event date plus the usual interval (7 days
\* with fewer than two dates), at midnight UTC, in local time; the current
\* time without events
_infer_next_event_ts(event_ids, now) ==
    LET dates == {parse_event_date(event_ids[i]) : i \in 1..Len(event_ids)}
    IN  IF dates = {} THEN now
        ELSE LET last == CHOOSE d \in dates : \A o \in dates : o <= d
                 delta == IF Cardinality(dates) >= 2 THEN mode_delta(dates) ELSE 7
             IN  combine(last + delta, 0) + CET_OFFSET

\* main(): the next event is inferred from the event history
InferNextEvent ==
    /\ call_args # NoCall
    /\ call_args.fn = "_mark_absences_for_next_event"
    /\ call_result = NoCall
    /\ \E now \in call_args.now_values :
          call_result' = [step |-> "inferred",
                          next_event_ts |-> _infer_next_event_ts(call_args.event_ids, now),
                          is_absent_next_event |-> <<>>]
    /\ UNCHANGED call_args
    /\ UNCHANGED <<rosterVars, signupVars, thresholdVars, rerunVars, composeVars>>

\* main(): the absences are loaded and marked for the next event
MarkAbsences ==
    /\ call_args # NoCall
    /\ call_args.fn = "_mark_absences_for_next_event"
    /\ call_result # NoCall
    /\ call_result.step = "inferred"
    /\ LET abs_df == [i \in 1..Len(call_args.absences) |->
                         _load_absences(call_args.absences[i])]
       IN  call_result' = [call_result EXCEPT
               !.step = "marked",
               !.is_absent_next_event =
                   _mark_absences_for_next_event(abs_df, call_result.next_event_ts)]
    /\ UNCHANGED call_args
    /\ UNCHANGED <<rosterVars, signupVars, thresholdVars, rerunVars, composeVars>>

AbsenceNext == InferNextEvent \/ MarkAbsences

MaxAbsenceRows == 1
MaxAbsenceEvents == 2

\* rows of absences.csv
absence_rows ==
    [From : {"", "n/a", "2025-01-08", "2025-01-09"},
     To : {"", "2025-01-06", "2025-01-08", "2025-01-08 23:59"},
     Scope : {"", " Next_Event ", "range"}]

absence_event_ids == {"DS-2025-01-01-A", "DS-2025-01-04-A", "DS-2025-01-06-A"}

\* the time of the build when there is no event history
build_times == {combine(7, 0), combine(7, 9 * 60), combine(9, 0)}

InitAbsence ==
    /\ \E n \in 0..MaxAbsenceRows : \E f \in [1..n -> absence_rows] :
       \E m \in 0..MaxAbsenceEvents : \E ev \in [1..m -> absence_event_ids] :
           call_args = [fn |-> "_mark_absences_for_next_event",
                        absences |-> f, event_ids |-> ev,
                        now_values |-> IF m = 0 THEN build_times ELSE {0}]
    /\ call_result = NoCall
    /\ RosterIdle
    /\ SignupIdle
    /\ ThresholdIdle
    /\ ComposeIdle

SpecAbsence == InitAbsence /\ [][AbsenceNext]_vars

-----------------------------------------------------------------------------
(* Part 10: build_rosters_from_hard_signups (src/src/core_roster.py).  A   *)
(* signup is [name, group_wish, role_wish]; a roster entry is [name, role].*)

DEFAULT_CAPACITY ==
    [g \in GroupSet |-> [r \in RoleSet |-> IF r = "Start" THEN 20 ELSE 10]]

\* _role_from_wish: strip and lower, then the prefix "ersatz" or the word "sub"
_role_from_wish(role_wish) ==
    LET norm == CASE role_wish \in {"Ersatz", "ersatz"} -> "ersatz"
                  [] role_wish = " Ersatz 1" -> "ersatz 1"
                  [] role_wish \in {"Sub ", "sub"} -> "sub"
                  [] role_wish = "Start" -> "start"
                  [] role_wish = "Substitute" -> "substitute"
                  [] OTHER -> role_wish
    IN  IF norm \in {"ersatz", "ersatz 1"} \/ norm = "sub" THEN "Ersatz" ELSE "Start"

\* _group_from_wish: strip and upper, B only for "B"
_group_from_wish(group_wish) ==
    LET norm == CASE group_wish \in {"B", "b", " b "} -> "B"
                  [] group_wish \in {"A", "a"} -> "A"
                  [] OTHER -> group_wish
    IN  IF norm = "B" THEN "B" ELSE "A"

\* _to_entry
_to_entry(signup) == [name |-> signup.name, role |-> _role_from_wish(signup.role_wish)]

\* variant: a slot is also taken when nothing is left
has_capacity_or_none(cap) == cap >= 0

\* if cap > 0
has_capacity(cap) == cap > 0

EmptyRosters ==
    [team_a |-> [start |-> <<>>, subs |-> <<>>],
     team_b |-> [start |-> <<>>, subs |-> <<>>],
     hard_signups_not_in_roster |-> <<>>,
     capacity |-> DEFAULT_CAPACITY]

\* one iteration of `for signup in signups` (core_roster.py 80-95)
place_signup(out, signup) ==
    LET entry == _to_entry(signup)
        target_group == _group_from_wish(signup.group_wish)
        target_role == entry.role
        cap == out.capacity[target_group][target_role]
        list == IF target_role = "Start" THEN "start" ELSE "subs"
        team == IF target_group = "A" THEN "team_a" ELSE "team_b"
    IN  IF has_capacity(cap)
        THEN [out EXCEPT !.capacity[target_group][target_role] = @ - 1,
                         ![team][list] = Append(@, entry)]
        ELSE [out EXCEPT !.hard_signups_not_in_roster = Append(@, entry)]

\* build_rosters_from_hard_signups is called: the empty lists and a copy of
\* the default capacities (core_roster.py 73-78)
BeginRosters ==
    /\ call_args # NoCall
    /\ call_args.fn = "build_rosters_from_hard_signups"
    /\ call_result = NoCall
    /\ call_result' = [returned |-> FALSE, next |-> 1, out |-> EmptyRosters]
    /\ UNCHANGED call_args
    /\ UNCHANGED <<rosterVars, signupVars, thresholdVars, rerunVars, composeVars>>

\* the next signup is placed
PlaceSignup ==
    /\ call_args # NoCall
    /\ call_args.fn = "build_rosters_from_hard_signups"
    /\ call_result # NoCall
    /\ ~call_result.returned
    /\ call_result.next <= Len(call_args.signups)
    /\ call_result' = [call_result EXCEPT
            !.next = @ + 1,
            !.out = place_signup(@, call_args.signups[call_result.next])]
    /\ UNCHANGED call_args
    /\ UNCHANGED <<rosterVars, signupVars, thresholdVars, rerunVars, composeVars>>

\* the rosters are returned (core_roster.py 97-103)
ReturnRosters ==
    /\ call_args # NoCall
    /\ call_args.fn = "build_rosters_from_hard_signups"
    /\ call_result # NoCall
    /\ ~call_result.returned
    /\ call_result.next > Len(call_args.signups)
    /\ call_result' = [call_result EXCEPT !.returned = TRUE]
    /\ UNCHANGED call_args
    /\ UNCHANGED <<rosterVars, signupVars, thresholdVars, rerunVars, composeVars>>

RostersNext == BeginRosters \/ PlaceSignup \/ ReturnRosters

MaxRunStart == 21   \* signups in a row with the same wish, first run
MaxRunSubs == 11    \* signups in a row with the same wish, second run
MaxTail == 1        \* further signups with any wishes

\* <<group_wish, role_wish>> of a signup
wishes ==
    { <<" b ", "Start">>, <<"B", " Ersatz 1">>, <<"", "Sub ">>, <<"C", "Substitute">> }

\* n signups with the wish w, named from first on
run_of(w, n, first) ==
    [i \in 1..n |-> [name |-> first + i - 1, group_wish |-> w[1], role_wish |-> w[2]]]

InitRosters ==
    /\ \E w1 \in wishes, w2 \in wishes :
       \E n1 \in {0, MaxRunStart - 1, MaxRunStart}, n2 \in {0, MaxRunSubs - 1, MaxRunSubs} :
       \E m \in 0..MaxTail : \E tail \in [1..m -> wishes] :
           call_args =
               [fn |-> "build_rosters_from_hard_signups",
                signups |-> run_of(w1, n1, 1) \o run_of(w2, n2, n1 + 1) \o
                            [i \in 1..m |-> [name |-> n1 + n2 + i,
                                             group_wish |-> tail[i][1],
                                             role_wish |-> tail[i][2]]]]
    /\ call_result = NoCall
    /\ RosterIdle
    /\ SignupIdle
    /\ ThresholdIdle
    /\ ComposeIdle

SpecRosters == InitRosters /\ [][RostersNext]_vars

-----------------------------------------------------------------------------
(* Vocabulary of the properties.  It is written from the inputs and the    *)
(* roster rows, not from the operators above.                              *)

\* indices of forced_assignments that are accepted: a non-blank player, a
\* valid team and role, and no earlier valid entry for the same player
ValidForced(i) ==
    /\ canonical_name(forced_assignments[i].PlayerName) # ""
    /\ strip_upper(forced_assignments[i].Group) \in GroupSet
    /\ strip_title(forced_assignments[i].Role) \in RoleSet
AcceptedForced ==
    {i \in 1..Len(forced_assignments) :
        /\ ValidForced(i)
        /\ \A j \in 1..(i - 1) :
              ValidForced(j) => canonical_name(forced_assignments[j].PlayerName)
                                  # canonical_name(forced_assignments[i].PlayerName)}
AcceptedForcedTo(g, r) ==
    {i \in AcceptedForced : strip_upper(forced_assignments[i].Group) = g
                            /\ strip_title(forced_assignments[i].Role) = r}
ForcedNames == {canonical_name(forced_assignments[i].PlayerName) : i \in AcceptedForced}

\* the scored capacity given for a slot (the defaults when none is given)
GivenCap(g, r) ==
    IF capacities_by_group_role = <<>>
    THEN (IF r = "Start" THEN STARTERS_PER_GROUP ELSE SUBS_PER_GROUP)
    ELSE capacities_by_group_role[g][r]

Started == pc # "setup"
\* slot number s of `order` has been filled
Filled(s) == Started /\ s < slot

RowsOf(g, r) == {i \in 1..Len(rows) : rows[i].Group = g /\ rows[i].Role = r}
\* roster rows placed by scoring: the forced rows come first
ScoredRows == (Cardinality(AcceptedForced) + 1)..Len(rows)
ScoredIn(s) == ScoredRows \cap RowsOf(order[s].group, order[s].role)

\* the candidate (row of the de-duplicated table) behind a roster row
Cand(name) == CHOOSE row \in Range(df) : row.PlayerName = name

\* names placed once slot s has been filled
PlacedUpTo(s) ==
    ForcedNames \cup {rows[i].PlayerName : i \in UNION {ScoredIn(t) : t \in 1..s}}
UnplacedAfter(s) ==
    LET placed == PlacedUpTo(s) IN {q \in Range(df) : q.PlayerName \notin placed}

OtherGroup(g) == IF g = "A" THEN "B" ELSE "A"
\* priority category of candidate q for a slot of team g:
\* 1 hard match, 2 soft match, 3 neutral, 4 cross non-hard, 5 cross hard
CatOf(q, g) ==
    IF q.PrefGroup = g /\ q.PrefMode = "hard" THEN 1
    ELSE IF q.PrefGroup = g /\ q.PrefMode = "soft" THEN 2
    ELSE IF q.PrefGroup = OtherGroup(g) /\ q.PrefMode = "hard" THEN 5
    ELSE IF q.PrefGroup = OtherGroup(g) THEN 4
    ELSE 3

NoData(q) == q.events_seen <= 0
NoDataPlaced(g, r) ==
    LET scored == ScoredRows
    IN  Cardinality({i \in RowsOf(g, r) : i \in scored /\ NoData(Cand(rows[i].PlayerName))})
GuardActive == has_events_seen /\ start_no_data_cap >= 0
\* the low-data guard does not admit q to slot s
GuardRejects(q, s) ==
    /\ GuardActive
    /\ order[s].role = "Start"
    /\ NoData(q)
    /\ NoDataPlaced(order[s].group, "Start") >= start_no_data_cap

SlotScore(q, s) ==
    LET p == IF order[s].role = "Start" THEN q.p_start ELSE q.p_sub
        b == IF q.PrefGroup # order[s].group THEN 0
             ELSE IF q.PrefBoost > 0 THEN q.PrefBoost ELSE DEFAULT_BOOST
    IN  clip(p + b - q.risk_penalty, 0, 100)
RoleProb(q, s) == IF order[s].role = "Start" THEN q.p_start ELSE q.p_sub
OtherRoleProb(q, s) == IF order[s].role = "Start" THEN q.p_sub ELSE q.p_start

-----------------------------------------------------------------------------
(* C1: at every point of a run, and so in the returned roster, no          *)
(* canonical player name is in more than one roster row, whatever the      *)
(* candidate table (duplicate names included) and the forced assignments   *)
(* (duplicates and candidates included).                                   *)
C1_Uniqueness ==
    \A i, j \in 1..Len(rows) : rows[i].PlayerName = rows[j].PlayerName => i = j

\* a returned roster built from a table that repeats a name and from forced
\* assignments that repeat a player who is also a candidate
C1_Witness ==
    /\ pc = "returned"
    /\ Len(df) < Len(probs_df)
    /\ Cardinality(AcceptedForced) > 0
    /\ \E i \in 1..Len(forced_assignments) : ValidForced(i) /\ i \notin AcceptedForced
    /\ ForcedNames \cap NamesOf(df) # {}
    /\ ScoredRows # {}

C3_CategoryOrder ==
    \A s \in 1..Len(order) : Filled(s) =>
        LET g == order[s].group
            in_slot == ScoredIn(s)
            left == UnplacedAfter(s)
        IN
        /\ \A i \in in_slot : \A q \in left :
              CatOf(q, g) < CatOf(Cand(rows[i].PlayerName), g) => GuardRejects(q, s)
        /\ \A i, j \in in_slot :
              i < j => CatOf(Cand(rows[i].PlayerName), g) <= CatOf(Cand(rows[j].PlayerName), g)

\* capacity 1: a hard match is placed, and a candidate without preference,
\* with the same slot score and admitted by the guard, is left out
C3_Witness ==
    \E s \in 1..Len(order) :
        /\ Filled(s)
        /\ caps[order[s].group][order[s].role] = 1
        /\ \E i \in ScoredIn(s) : \E q \in UnplacedAfter(s) :
              /\ CatOf(Cand(rows[i].PlayerName), order[s].group) = 1
              /\ q.PrefGroup = ""
              /\ SlotScore(q, s) = SlotScore(Cand(rows[i].PlayerName), s)
              /\ ~GuardRejects(q, s)

(* C4 as claimed: a candidate with a hard preference for the other team is *)
(* in a slot only if no candidate of the other four categories is left     *)
(* unplaced.                                                               *)
C4_LastResortClaimed ==
    \A s \in 1..Len(order) : Filled(s) =>
        LET left == UnplacedAfter(s) IN
        \A i \in ScoredIn(s) : \A q \in left :
            CatOf(Cand(rows[i].PlayerName), order[s].group) = 5
                => CatOf(q, order[s].group) = 5

(* C4 amended: a candidate with a hard preference for the other team is in *)
(* a slot only if every unplaced candidate of the other four categories is *)
(* one the low-data guard does not admit to the slot.                      *)
C4_LastResort ==
    \A s \in 1..Len(order) : Filled(s) =>
        LET left == UnplacedAfter(s) IN
        \A i \in ScoredIn(s) : \A q \in left :
            (CatOf(Cand(rows[i].PlayerName), order[s].group) = 5
                /\ CatOf(q, order[s].group) < 5) => GuardRejects(q, s)

\* a cross-hard candidate is placed in a slot together with a candidate of
\* another category, and a further cross-hard candidate is left out
C4_Witness ==
    \E s \in 1..Len(order) :
        /\ Filled(s)
        /\ \E i, j \in ScoredIn(s) :
              /\ CatOf(Cand(rows[i].PlayerName), order[s].group) = 5
              /\ CatOf(Cand(rows[j].PlayerName), order[s].group) < 5
        /\ \E q \in UnplacedAfter(s) : CatOf(q, order[s].group) = 5

\* the order claimed for candidates of one category: slot score, role
\* probability, name
KeyClaimedBefore(a, b, s) ==
    \/ SlotScore(a, s) > SlotScore(b, s)
    \/ SlotScore(a, s) = SlotScore(b, s) /\ RoleProb(a, s) > RoleProb(b, s)
    \/ /\ SlotScore(a, s) = SlotScore(b, s) /\ RoleProb(a, s) = RoleProb(b, s)
       /\ name_lt(a.PlayerName, b.PlayerName)

\* the same order with the other role's probability ahead of the name
KeyBefore(a, b, s) ==
    \/ SlotScore(a, s) > SlotScore(b, s)
    \/ SlotScore(a, s) = SlotScore(b, s) /\ RoleProb(a, s) > RoleProb(b, s)
    \/ /\ SlotScore(a, s) = SlotScore(b, s) /\ RoleProb(a, s) = RoleProb(b, s)
       /\ OtherRoleProb(a, s) > OtherRoleProb(b, s)
    \/ /\ SlotScore(a, s) = SlotScore(b, s) /\ RoleProb(a, s) = RoleProb(b, s)
       /\ OtherRoleProb(a, s) = OtherRoleProb(b, s)
       /\ name_lt(a.PlayerName, b.PlayerName)

(* C5 as claimed: within one category of a slot the candidates are taken   *)
(* by slot score descending, then the slot's role probability descending,  *)
(* then name ascending, and nothing else: a placed candidate precedes, in  *)
(* that order, every later one of its category in the slot and every       *)
(* candidate of its category that the guard admits and that is left out.   *)
C5_OrderClaimed ==
    \A s \in 1..Len(order) : Filled(s) =>
        LET g == order[s].group
            in_slot == ScoredIn(s)
            left == UnplacedAfter(s)
        IN
        /\ \A i, j \in in_slot :
              (i < j /\ CatOf(Cand(rows[i].PlayerName), g) = CatOf(Cand(rows[j].PlayerName), g))
                  => KeyClaimedBefore(Cand(rows[i].PlayerName), Cand(rows[j].PlayerName), s)
        /\ \A i \in in_slot : \A q \in left :
              (CatOf(q, g) = CatOf(Cand(rows[i].PlayerName), g) /\ ~GuardRejects(q, s))
                  => KeyClaimedBefore(Cand(rows[i].PlayerName), q, s)

(* C5 amended: the order within a category is slot score descending, then  *)
(* the slot's role probability descending, then the other role's           *)
(* probability descending, then name ascending.                            *)
C5_Order ==
    \A s \in 1..Len(order) : Filled(s) =>
        LET g == order[s].group
            in_slot == ScoredIn(s)
            left == UnplacedAfter(s)
        IN
        /\ \A i, j \in in_slot :
              (i < j /\ CatOf(Cand(rows[i].PlayerName), g) = CatOf(Cand(rows[j].PlayerName), g))
                  => KeyBefore(Cand(rows[i].PlayerName), Cand(rows[j].PlayerName), s)
        /\ \A i \in in_slot : \A q \in left :
              (CatOf(q, g) = CatOf(Cand(rows[i].PlayerName), g) /\ ~GuardRejects(q, s))
                  => KeyBefore(Cand(rows[i].PlayerName), q, s)

\* two candidates of one category tie on slot score and role probability;
\* the one placed has the higher probability for the other role and the
\* later name
C5_Witness ==
    \E s \in 1..Len(order) :
        /\ Filled(s)
        /\ \E i \in ScoredIn(s) : \E q \in UnplacedAfter(s) :
              LET a == Cand(rows[i].PlayerName) IN
              /\ CatOf(q, order[s].group) = CatOf(a, order[s].group)
              /\ SlotScore(a, s) = SlotScore(q, s)
              /\ RoleProb(a, s) = RoleProb(q, s)
              /\ OtherRoleProb(a, s) > OtherRoleProb(q, s)
              /\ name_lt(q.PlayerName, a.PlayerName)

(* C6: with an events_seen column and START_NO_DATA_CAP >= 0, the number   *)
(* of candidates without history placed by scoring in a team's Start slot  *)
(* never exceeds START_NO_DATA_CAP; an Ersatz slot is not restricted: it   *)
(* is short of candidates only when no candidate at all is left.           *)
C6_NoDataCap ==
    /\ GuardActive =>
          \A g \in GroupSet : NoDataPlaced(g, "Start") <= start_no_data_cap
    /\ (pc = "raised" /\ error.kind = "RuntimeError" /\ error.role = "Ersatz")
          => NamesOf(df) \subseteq PlacedUpTo(Len(order))

\* the guard has turned a candidate away from a Start slot that holds as
\* many candidates without history as the cap allows, and an Ersatz slot
\* holds a candidate without history
C6_Witness ==
    /\ pc = "returned"
    /\ GuardActive
    /\ \E s \in 1..Len(order) :
          /\ order[s].role = "Start"
          /\ start_no_data_cap > 0
          /\ NoDataPlaced(order[s].group, "Start") = start_no_data_cap
          /\ \E q \in UnplacedAfter(s) : GuardRejects(q, s)
          /\ \E i \in ScoredIn(s) : ~NoData(Cand(rows[i].PlayerName))
    /\ \E g \in GroupSet : NoDataPlaced(g, "Ersatz") > 0

(* C7: a slot with scored capacity c > 0 that cannot be given c candidates *)
(* is never passed over: the roster is not returned with it under-filled,  *)
(* and the run ends with the error that names the team, the role and the   *)
(* number of missing players.                                              *)
C7_ShortageNamed ==
    /\ pc = "returned" =>
          \A s \in 1..Len(order) :
              Cardinality(ScoredIn(s)) >= GivenCap(order[s].group, order[s].role)
    /\ pc = "raised" =>
          /\ error.kind = "RuntimeError"
          /\ error.group = order[slot].group
          /\ error.role = order[slot].role
          /\ error.missing >= 1
          /\ error.missing <= GivenCap(error.group, error.role)

(* C8: every accepted forced assignment has its roster row, with exactly   *)
(* the team and role given, and its player has no other row, whatever the  *)
(* player's probability, preference and history and whatever the scored    *)
(* capacities.                                                             *)
C8_ForcedKept ==
    Started =>
        \A i \in AcceptedForced :
            LET p == canonical_name(forced_assignments[i].PlayerName)
                hits == {k \in 1..Len(rows) : rows[k].PlayerName = p}
            IN  /\ Cardinality(hits) = 1
                /\ \A k \in hits :
                      /\ rows[k].Group = strip_upper(forced_assignments[i].Group)
                      /\ rows[k].Role = strip_title(forced_assignments[i].Role)

\* a returned roster with a forced player who is also a candidate, next to
\* a scored player
C8_Witness ==
    /\ pc = "returned"
    /\ ForcedNames \cap NamesOf(df) # {}
    /\ ScoredRows # {}

-----------------------------------------------------------------------------
(* Vocabulary of the signup properties, written from the file rows, the    *)
(* alliance, the absences and the pool.                                    *)

HardRow(k) == event_signups[k].Commitment = "hard"

\* a hard signup of a known player who is a member, not absent and in the pool
EligibleRow(k) ==
    /\ HardRow(k)
    /\ event_signups[k].canon # NoCanon
    /\ event_signups[k].canon \in in_alliance_set
    /\ event_signups[k].canon \notin absent_now
    /\ event_signups[k].canon \in DOMAIN pool_pref

\* the first eligible row of its player
AcceptedRow(k) ==
    /\ EligibleRow(k)
    /\ \A j \in 1..(k - 1) :
          EligibleRow(j) => event_signups[j].canon # event_signups[k].canon

AcceptedRows == {k \in 1..row_no : AcceptedRow(k)}
RejectedRows == {k \in 1..row_no : HardRow(k) /\ ~AcceptedRow(k)}

\* the i-th smallest element of a set of row numbers
NthOf(S, i) == CHOOSE k \in S : Cardinality({j \in S : j < k}) = i - 1

SlotCapacity(r) == IF r = "Start" THEN STARTERS_PER_GROUP ELSE SUBS_PER_GROUP

\* the first i forced signups that sit in slot (g, r)
ForcedIn(g, r, i) ==
    {j \in 1..i : forced_signups[j].group = g /\ forced_signups[j].role = r}
ForcedCount(g, r) == Cardinality(ForcedIn(g, r, Len(forced_signups)))

ExcessEntries(g, r) ==
    {i \in 1..Len(overbooked_forced_signups) :
        /\ overbooked_forced_signups[i].group = g
        /\ overbooked_forced_signups[i].role = r}

Reported == mpc \in {"call", "floored", "called"}

(* C9: the forced signups are exactly the accepted hard signups, in file   *)
(* order, each in the team and role its row names, however full the slot   *)
(* is; a signup is flagged overbooked exactly when its slot holds more     *)
(* forced signups than its capacity once it is placed; after the loop the  *)
(* report has one entry per overfull slot with the excess, and the         *)
(* capacity passed to the allocator is max(0, capacity - forced count).    *)
C9_Overbooking ==
    /\ Len(forced_signups) = Cardinality(AcceptedRows)
    /\ \A i \in 1..Len(forced_signups) :
          LET f == forced_signups[i]
              row == event_signups[NthOf(AcceptedRows, i)]
          IN  /\ f.canon = row.canon
              /\ f.group \in GroupSet /\ f.role \in RoleSet
              /\ row.Group \in GroupSet => f.group = row.Group
              /\ row.Role \in RoleSet => f.role = row.Role
              /\ f.overbooked <=>
                     Cardinality(ForcedIn(f.group, f.role, i)) > SlotCapacity(f.role)
    /\ Reported =>
          \A g \in GroupSet, r \in RoleSet :
              LET n == ForcedCount(g, r)
                  cap == SlotCapacity(r)
              IN  /\ Cardinality(ExcessEntries(g, r)) = (IF n > cap THEN 1 ELSE 0)
                  /\ \A i \in ExcessEntries(g, r) :
                        /\ overbooked_forced_signups[i].excess_forced = n - cap
                        /\ overbooked_forced_signups[i].capacity = cap
                  /\ capacities_remaining[g][r] = (IF cap - n > 0 THEN cap - n ELSE 0)
    /\ mpc = "called" =>
          /\ Len(forced_assignments) = Len(forced_signups)
          /\ \A i \in 1..Len(forced_signups) :
                /\ forced_assignments[i].PlayerName = forced_signups[i].canon
                /\ forced_assignments[i].Group = forced_signups[i].group
                /\ forced_assignments[i].Role = forced_signups[i].role
          /\ \A g \in GroupSet, r \in RoleSet :
                LET n == ForcedCount(g, r)
                    cap == SlotCapacity(r)
                IN  /\ capacities_by_group_role[g][r] >= 0
                    /\ capacities_by_group_role[g][r] =
                           (IF cap - n > 0 THEN cap - n ELSE 0)

\* the allocator is called after a signup was placed in a slot that was
\* already full, next to signups that were not overbooked
C9_Witness ==
    /\ mpc = "called"
    /\ \E i, j \in 1..Len(forced_signups) :
          /\ i < j
          /\ ~forced_signups[i].overbooked
          /\ forced_signups[j].overbooked
          /\ forced_assignments[j].Group = forced_signups[i].group
          /\ forced_assignments[j].Role = forced_signups[i].role
    /\ overbooked_forced_signups # <<>>

\* the reason the order of the claim gives a rejected hard signup
RejectReason(k) ==
    LET c == event_signups[k].canon
    IN  IF c = NoCanon THEN "unknown_player"
        ELSE IF \E j \in AcceptedRows : j < k /\ event_signups[j].canon = c
             THEN "duplicate"
        ELSE IF c \notin in_alliance_set THEN "not_in_alliance"
        ELSE IF c \in absent_now THEN "absent"
        ELSE "inactive_or_filtered"

HardRowsDone == {k \in 1..row_no : HardRow(k)}

(* C10: every hard signup processed so far whose player has no key,        *)
(* repeats an accepted signup, is no member, is absent or is not in the    *)
(* pool has its entry in the invalid list, in file order, with that        *)
(* reason; the forced signups name distinct eligible players only; the     *)
(* capacity used is the number of forced signups per slot; every row       *)
(* processed has its status and the loop goes on to the call of the        *)
(* allocator, which gets the forced signups only.                          *)
C10_InvalidSignups ==
    /\ Len(invalid_forced_signups) = Cardinality(RejectedRows)
    /\ \A i \in 1..Len(invalid_forced_signups) :
          LET k == NthOf(RejectedRows, i)
          IN  /\ invalid_forced_signups[i].player = event_signups[k].PlayerName
              /\ invalid_forced_signups[i].reason = RejectReason(k)
    /\ Len(forced_signups) + Len(invalid_forced_signups) = Cardinality(HardRowsDone)
    /\ \A i \in 1..Len(forced_signups) :
          LET c == forced_signups[i].canon
          IN  /\ c # NoCanon
              /\ c \in in_alliance_set
              /\ c \notin absent_now
              /\ c \in DOMAIN pool_pref
              /\ \A j \in 1..Len(forced_signups) :
                    j # i => forced_signups[j].canon # c
    /\ ~Reported =>
          \A g \in GroupSet, r \in RoleSet :
              capacities_remaining[g][r] = SlotCapacity(r) - ForcedCount(g, r)
    /\ \A g \in GroupSet, r \in RoleSet :
          forced_count_snapshot[g][r] = ForcedCount(g, r)
    /\ Len(signup_file_entries) = row_no
    /\ Reported => row_no = Len(event_signups)
    /\ mpc = "called" =>
          /\ Len(forced_assignments) = Cardinality(AcceptedRows)
          /\ \A i \in 1..Len(forced_assignments) :
                forced_assignments[i].PlayerName =
                    event_signups[NthOf(AcceptedRows, i)].canon

\* the allocator is called after an accepted signup, a repetition of it and
\* a signup of a player who declined
C10_Witness ==
    /\ mpc = "called"
    /\ forced_signups # <<>>
    /\ \E i, j \in 1..Len(invalid_forced_signups) :
          /\ invalid_forced_signups[i].reason = "duplicate"
          /\ invalid_forced_signups[j].reason = "inactive_or_filtered"

-----------------------------------------------------------------------------
(* Vocabulary of the threshold properties *)

\* the minimum configured for Team B Start is not met by candidate q
BelowBStart(q) == \E t \in min_attend_start["B"] : q.p_start < t

StageRows(g, r, stage) == {i \in RowsOf(g, r) : selection_stage[i] = stage}
BMain == StageRows("B", "Start", "B-start-main")
BFallback == StageRows("B", "Start", "B-start-fallback")

\* candidates not forced: the ones the scoring can place
Scorable == {q \in Range(df) : q.PlayerName \notin ForcedNames}

MinOf(a, b) == IF a < b THEN a ELSE b

(* C11: no row of Team B Start placed by the main stage has an attend_prob *)
(* below the minimum of Team B Start; Team A Start, which has no minimum,  *)
(* holds min(capacity, candidates) scored rows once it has been filled;    *)
(* and when slots may stay unfilled the allocator never raises.            *)
C11_Thresholds ==
    Started =>
        /\ Len(selection_stage) = Len(rows)
        /\ \A i \in BMain : ~BelowBStart(Cand(rows[i].PlayerName))
        /\ (Filled(1) /\ min_attend_start["A"] = {}) =>
              Cardinality(ScoredIn(1)) =
                  MinOf(GivenCap("A", "Start"), Cardinality(Scorable))
        /\ allow_unfilled => pc # "raised"

\* a returned roster in which Team A Start holds a candidate below 60 while
\* Team B Start stays short although a candidate below the minimum is left
C11_Witness ==
    /\ pc = "returned"
    /\ allow_unfilled
    /\ \E i \in ScoredIn(1) : Cand(rows[i].PlayerName).p_start < 60
    /\ Cardinality(ScoredIn(2)) < GivenCap("B", "Start")
    /\ \E q \in UnplacedAfter(4) : BelowBStart(q)

(* C12: once Team B Start has been filled, the fallback rows bring the     *)
(* scored starters of Team B to min(min_b_starters, capacity) and not      *)
(* beyond; fewer are placed only when no candidate below the minimum is    *)
(* left; fallback rows are candidates below the minimum and exist only     *)
(* when the main stage stayed under min_b_starters; the forced rows, and   *)
(* only they, have the stage "forced".                                     *)
C12_Fallback ==
    Filled(2) =>
        LET target == MinOf(min_b_starters, GivenCap("B", "Start"))
            placed == Cardinality(BMain) + Cardinality(BFallback)
        IN  /\ ScoredIn(2) = BMain \cup BFallback
            /\ BFallback # {} => (Cardinality(BMain) < min_b_starters /\ placed <= target)
            /\ placed < target => \A q \in UnplacedAfter(2) : ~BelowBStart(q)
            /\ \A i \in BFallback : BelowBStart(Cand(rows[i].PlayerName))
            /\ \A i \in BMain : ~BelowBStart(Cand(rows[i].PlayerName))
            /\ \A i \in 1..Len(rows) :
                  (selection_stage[i] = "forced") <=> (i \notin ScoredRows)

\* a returned roster with a forced starter of Team B, a starter of the main
\* stage and a fallback starter, or with a fallback starter while another
\* candidate below the minimum stays out
C12_Witness ==
    /\ pc = "returned"
    /\ BMain # {}
    /\ BFallback # {}
    /\ \/ \E i \in RowsOf("B", "Start") : selection_stage[i] = "forced"
       \/ \E q \in UnplacedAfter(4) : BelowBStart(q)

(* C13: of two candidates below the minimum with equal attend_prob, both   *)
(* unplaced before Team B Start, the fallback pass places the one with     *)
(* fewer events_seen first, then the one whose canonical name is smaller:  *)
(* the other is placed after it or not in this slot.                       *)
C13_FallbackTieBreak ==
    Filled(2) =>
        \A i \in BFallback :
            LET a == Cand(rows[i].PlayerName)
                later == {Cand(rows[j].PlayerName) : j \in {k \in BFallback : k > i}}
                left == {q \in UnplacedAfter(2) : BelowBStart(q)}
            IN  \A b \in later \cup left :
                    a.p_start = b.p_start =>
                        \/ a.events_seen < b.events_seen
                        \/ /\ a.events_seen = b.events_seen
                           /\ name_lt(a.PlayerName, b.PlayerName)

\* the fallback pass placed a candidate with 2 events seen while one with
\* the same attend_prob, 10 events seen and the smaller name stayed out
C13_Witness ==
    /\ Filled(2)
    /\ \E i \in BFallback : \E q \in UnplacedAfter(2) :
          LET a == Cand(rows[i].PlayerName)
          IN  /\ a.p_start = q.p_start
              /\ a.events_seen = 2
              /\ q.events_seen = 10
              /\ name_lt(q.PlayerName, a.PlayerName)

-----------------------------------------------------------------------------
(* C14: a second call with the same candidate rows in any order (the same  *)
(* order included) ends as the first did: the same roster rows in the same *)
(* order when it returns, the same error when it raises.                   *)
C14_OrderIndependent ==
    (first_run # NoRun /\ pc \in {"returned", "raised"}) =>
        /\ pc = first_run.pc
        /\ rows = first_run.rows
        /\ error = first_run.error

\* the second call returned a roster holding the later one of two table rows
\* that tie on every sort key but the name and that changed places
C14_Witness ==
    /\ first_run # NoRun
    /\ pc = "returned"
    /\ \E i, j \in 1..Len(probs_df) :
          /\ i < j
          /\ first_run.probs_df[i] = probs_df[j]
          /\ first_run.probs_df[j] = probs_df[i]
          /\ [probs_df[i] EXCEPT !.PlayerName = ""] = [probs_df[j] EXCEPT !.PlayerName = ""]
          /\ canonical_name(probs_df[j].PlayerName) \in NamesOf(rows)
          /\ canonical_name(probs_df[i].PlayerName) \notin NamesOf(rows)

-----------------------------------------------------------------------------
(* Vocabulary of the response and attend_prob properties *)

ResponsesApplied == mpc # "responses"
Composed == mpc \notin {"responses", "compose"}
Floored == mpc \in {"floored", "called"}

\* players with a response row of the given status
Responded(status) ==
    {event_responses[k].canon : k \in {j \in 1..Len(event_responses) :
                                          event_responses[j].Status = status}}

(* C15: once the responses are applied, a player with a decline is in no   *)
(* pool row, is never an accepted forced signup, has every hard signup     *)
(* processed so far in the invalid list, and is neither a candidate row    *)
(* nor a forced assignment of the call of the allocator.                   *)
C15_DeclinedRemoved ==
    ResponsesApplied =>
        /\ decline_canons = Responded("decline")
        /\ \A c \in decline_canons :
              /\ c \notin DOMAIN pool
              /\ c \notin DOMAIN pool_pref
              /\ c \notin seen_forced
              /\ \A i \in 1..Len(forced_signups) : forced_signups[i].canon # c
              /\ \A k \in 1..row_no :
                    HardRow(k) /\ event_signups[k].canon = c =>
                        \E i \in 1..Len(invalid_forced_signups) :
                            /\ invalid_forced_signups[i].canon = c
                            /\ invalid_forced_signups[i].player =
                                   event_signups[k].PlayerName
              /\ mpc = "called" =>
                    /\ \A i \in 1..Len(probs_df) :
                          canonical_name(probs_df[i].PlayerName) # c
                    /\ \A i \in 1..Len(forced_assignments) :
                          forced_assignments[i].PlayerName # c

\* the allocator is called after a hard signup of a player who declined
C15_Witness ==
    /\ mpc = "called"
    /\ \E k \in 1..Len(event_signups) :
          /\ HardRow(k)
          /\ event_signups[k].canon \in decline_canons
    /\ probs_df # <<>>

Clip01(x) == IF x < 0 THEN 0 ELSE IF x > ONE THEN ONE ELSE x
MaxOf(a, b) == IF a > b THEN a ELSE b

\* the configured floor and multiplier, clamped to [0, 1]
FloorOf == Clip01(attendance_config.hard_commit_floor * HUNDREDTH)
FactorOf == Clip01(attendance_config.no_response_multiplier * HUNDREDTH)

\* a * f for a in millionths and f a whole number of hundredths
Times(a, f) == (a * (f \div HUNDREDTH)) \div 100

\* attend_prob of pool row c from its raw value and risk penalty, before
\* any floor
Unraised(c) ==
    LET a == Clip01(pool[c].attend_prob_raw - pool[c].risk_penalty)
    IN  IF c \in noresp_canons THEN Clip01(Times(a, FactorOf)) ELSE a

(* C16: once the floor step has run, every player with an accepted hard    *)
(* signup has a pool row whose attend_prob is at least hard_commit_floor   *)
(* clamped to [0, 1] (the larger of the floor and the composed value),     *)
(* whatever the history, the risk penalty or a no-response entry; every    *)
(* other pool row keeps the composed value.                                *)
C16_HardFloor ==
    Floored =>
        /\ seen_forced \subseteq DOMAIN pool
        /\ \A c \in DOMAIN pool :
              IF c \in seen_forced
              THEN /\ pool[c].attend_prob >= FloorOf
                   /\ pool[c].attend_prob = MaxOf(Unraised(c), FloorOf)
              ELSE pool[c].attend_prob = Unraised(c)

\* the floor raised a player who has a no-response entry and left a player
\* below the floor who has no accepted hard signup
C16_Witness ==
    /\ Floored
    /\ \E c \in seen_forced \cap noresp_canons :
          /\ Unraised(c) < FloorOf
          /\ pool[c].attend_prob = FloorOf
    /\ \E c \in (DOMAIN pool) \ seen_forced : pool[c].attend_prob < FloorOf

\* lambda * sigma of pool row c, never negative
LambdaSigma(c) ==
    IF cfg.EB_ENABLE THEN MaxOf((cfg.EB_LAMBDA * pool[c].eb_sigma) \div 10, 0) ELSE 0

Silent == noresp_canons \cap DOMAIN pool

(* C17 as stated: for a player with a no-response entry, before any floor  *)
(* and with the shrinkage enabled, attend_prob_raw is clip(1 - p_hat, 0,   *)
(* 1) and attend_prob is clip(attend_prob_raw - lambda * sigma, 0, 1)      *)
(* times the clamped multiplier.                                           *)
C17_Original ==
    (Composed /\ ~Floored /\ cfg.EB_ENABLE) =>
        \A c \in Silent :
            /\ pool[c].attend_prob_raw = Clip01(ONE - pool[c].eb_p_hat)
            /\ pool[c].risk_penalty = LambdaSigma(c)
            /\ pool[c].attend_prob =
                   Times(Clip01(pool[c].attend_prob_raw - LambdaSigma(c)), FactorOf)

(* C17: for a player with a no-response entry the risk penalty is          *)
(* lambda * sigma plus the response penalty 0.15, attend_prob is           *)
(* clip(attend_prob_raw - risk penalty, 0, 1) times the clamped            *)
(* multiplier, raised to the floor once the player has an accepted hard    *)
(* signup, and attend_prob_raw is clip(1 - p_hat, 0, 1) when the shrinkage *)
(* is enabled.                                                             *)
C17_NoResponse ==
    Composed =>
        \A c \in Silent :
            LET penalty == LambdaSigma(c) + RESPONSE_PENALTY
                product == Times(Clip01(pool[c].attend_prob_raw - penalty), FactorOf)
            IN  /\ cfg.EB_ENABLE =>
                       pool[c].attend_prob_raw = Clip01(ONE - pool[c].eb_p_hat)
                /\ pool[c].risk_penalty = penalty
                /\ pool[c].attend_prob =
                       (IF Floored /\ c \in seen_forced
                        THEN MaxOf(product, FloorOf) ELSE product)

\* a player without a response whose attend_prob is positive and differs
\* from the value computed with lambda * sigma alone
C17_Witness ==
    /\ Composed /\ ~Floored /\ cfg.EB_ENABLE
    /\ \E c \in Silent :
          /\ LambdaSigma(c) > 0
          /\ FactorOf > 0 /\ FactorOf < ONE
          /\ pool[c].attend_prob > 0
          /\ pool[c].attend_prob #
                 Times(Clip01(pool[c].attend_prob_raw - LambdaSigma(c)), FactorOf)

-----------------------------------------------------------------------------
(* Vocabulary of the properties of stats.py: fractions are compared by     *)
(* cross-multiplication and the rates are counted in tenths.               *)

EbReturned == call_args # NoCall /\ call_args.fn = "eb_rate" /\ call_result # NoCall
PriorReturned ==
    call_args # NoCall /\ call_args.fn = "compute_team_prior" /\ call_result # NoCall

\* x clamped to [lo, hi], integers
Clamp(x, lo, hi) == IF x < lo THEN lo ELSE IF x > hi THEN hi ELSE x

\* the fraction f equals num / den, den > 0
EqualsFraction(f, num, den) == f[2] > 0 /\ f[1] * den = num * f[2]
\* the fraction f is at most (at least) num / den, den > 0
AtMost(f, num, den) == f[1] * den <= num * f[2]
AtLeast(f, num, den) == f[1] * den >= num * f[2]

\* p_hat = (p * h + s) / (h + n) for the prior p, the strength h and the
\* counts s and n
ShrunkRate(result, p, h, s, n) ==
    EqualsFraction(result.p_hat, p[1] * h[1] + s * p[2] * h[2],
                   p[2] * (h[1] + n * h[2]))

\* p_hat lies between the prior p and s / n, n > 0
BetweenPriorAndObserved(result, p, s, n) ==
    \/ /\ AtLeast(result.p_hat, p[1], p[2]) /\ AtMost(result.p_hat, s, n)
    \/ /\ AtMost(result.p_hat, p[1], p[2]) /\ AtLeast(result.p_hat, s, n)

\* the prior clamped to [0, 1] and the strength clamped to >= 0
ClampedPrior(p) == IF p[1] < 0 THEN <<0, 1>> ELSE IF p[1] > p[2] THEN <<1, 1>> ELSE p
ClampedStrength(h) == IF h[1] < 0 THEN <<0, 1>> ELSE h

RECURSIVE KeptTenths(_, _)
KeptTenths(rates, i) ==
    IF i > Len(rates) THEN <<>>
    ELSE IF rates[i][2] > 0 /\ rates[i][1] >= 0 /\ rates[i][1] <= rates[i][2]
    THEN <<rates[i][1] * (10 \div rates[i][2])>> \o KeptTenths(rates, i + 1)
    ELSE KeptTenths(rates, i + 1)

Kept == KeptTenths(call_args.rates, 1)

RECURSIVE Total(_, _)
\* f[1] + ... + f[i]
Total(f, i) == IF i = 0 THEN 0 ELSE f[i] + Total(f, i - 1)

\* the k-th smallest entry of f, k in 1..Len(f)
Ranked(f, k) ==
    CHOOSE v \in {f[i] : i \in 1..Len(f)} :
        /\ Cardinality({i \in 1..Len(f) : f[i] < v}) < k
        /\ Cardinality({i \in 1..Len(f) : f[i] <= v}) >= k

\* 20 times the percentile of level q20 / 20 of f, interpolated linearly
\* between the neighbouring ranks
Percentile20(f, q20) ==
    LET pos20 == q20 * (Len(f) - 1)
        k == pos20 \div 20
        part == pos20 % 20
    IN  IF part = 0 THEN 20 * Ranked(f, k + 1)
        ELSE (20 - part) * Ranked(f, k + 1) + part * Ranked(f, k + 2)

\* 20 times the entries of f clipped to the band of the 5th and the 95th
\* percentile
Winsorized20(f) ==
    [i \in 1..Len(f) |-> Clamp(20 * f[i], Percentile20(f, 1), Percentile20(f, 19))]

\* the fallback clamped to [0, 1]; nan stays nan
ClampedFallback(x) ==
    IF x[2] = 0 THEN x
    ELSE IF x[1] < 0 THEN <<0, 1>> ELSE IF x[1] > x[2] THEN <<1, 1>> ELSE x

(* C19 as stated: the fallback when no rate is kept or when winsorizing is *)
(* enabled and fewer than 10 are kept; the mean of the clipped rates with  *)
(* winsorizing and at least 10; the plain mean without winsorizing.        *)
C19_Original ==
    PriorReturned =>
        LET p0 == call_result.p0
            n == Len(Kept)
        IN  IF n = 0 THEN p0 = call_args.fallback
            ELSE IF call_args.winsor /\ n < 10 THEN p0 = call_args.fallback
            ELSE IF call_args.winsor
            THEN EqualsFraction(p0, Total(Winsorized20(Kept), n), 200 * n)
            ELSE EqualsFraction(p0, Total(Kept, n), 10 * n)

(* C19: of the rates that are finite and in [0, 1], compute_team_prior     *)
(* returns the fallback as given when none is kept; the fallback clamped   *)
(* to [0, 1] when winsorizing is enabled and fewer than 10 are kept; with  *)
(* winsorizing and at least 10, the mean of the rates clipped to the band  *)
(* of their 5th and 95th percentile; without winsorizing the plain mean.   *)
C19_TeamPrior ==
    PriorReturned =>
        LET p0 == call_result.p0
            n == Len(Kept)
        IN  IF n = 0 THEN p0 = call_args.fallback
            ELSE IF call_args.winsor /\ n < 10
            THEN p0 = ClampedFallback(call_args.fallback)
            ELSE IF call_args.winsor
            THEN EqualsFraction(p0, Total(Winsorized20(Kept), n), 200 * n)
            ELSE EqualsFraction(p0, Total(Kept, n), 10 * n)

\* compute_team_prior returned the mean of at least 10 rates of which two
\* were clipped to different bounds, after discarding a rate
C19_Witness ==
    /\ PriorReturned
    /\ call_args.winsor
    /\ Len(Kept) >= 10
    /\ Len(Kept) < Len(call_args.rates)
    /\ ~EqualsFraction(call_result.p0, Total(Kept, Len(Kept)), 10 * Len(Kept))
    /\ Percentile20(Kept, 1) > 20 * Ranked(Kept, 1)
    /\ Percentile20(Kept, 19) < 20 * Ranked(Kept, Len(Kept))

(* C20 as stated: whatever the rates, the winsor flag and the fallback,    *)
(* the value compute_team_prior returns is a number in [0, 1].             *)
C20_PriorInRange ==
    PriorReturned =>
        /\ call_result.p0[2] > 0
        /\ call_result.p0[1] >= 0
        /\ call_result.p0[1] <= call_result.p0[2]

-----------------------------------------------------------------------------
(* Vocabulary of the properties of the player history, written from the    *)
(* rows of the call; weights are counted in 64ths.                         *)

HistoryReturned ==
    call_args # NoCall /\ call_args.fn = "compute_player_history" /\ call_result # NoCall

EventRows == 1..Len(call_args.events)
OnRoster(i) == call_args.events[i][3] \in {"Start", "Ersatz"}
Attended(i) == call_args.events[i][4] >= 1
EventOf(i) == call_args.events[i][2]
KeyOf(i) == canonical_name(call_args.events[i][1])

\* the Start/Ersatz rows of event id
Assignees(id) == {i \in EventRows : OnRoster(i) /\ EventOf(i) = id}

\* an event without any show among at least 3 Start/Ersatz rows
DroppedEvent(id) ==
    /\ Cardinality(Assignees(id)) >= 3
    /\ \A i \in Assignees(id) : ~Attended(i)

\* the rows that count for player p
CountedRows(p) ==
    {i \in EventRows : OnRoster(i) /\ KeyOf(i) = p /\ ~DroppedEvent(EventOf(i))}

\* the age of row i in days, never negative
AgeOf(i) ==
    LET age == call_args.reference_day - parse_event_date(EventOf(i))
    IN  IF age < 0 THEN 0 ELSE age

\* 64 * 0.5 ^ (age / half-life), and 64 when the half-life is not positive
Weight64(i) ==
    IF call_args.half_life_days <= 0 THEN 64
    ELSE 64 \div pow2(AgeOf(i) \div call_args.half_life_days)

RECURSIVE Weight64Sum(_)
Weight64Sum(S) ==
    IF S = {} THEN 0
    ELSE LET i == CHOOSE k \in S : TRUE IN Weight64(i) + Weight64Sum(S \ {i})

OneOldNoShow(p) ==
    LET missed == {i \in CountedRows(p) : ~Attended(i)}
        shown == {i \in CountedRows(p) : Attended(i)}
    IN  /\ Cardinality(missed) = 1
        /\ shown # {}
        /\ \A i \in missed, j \in shown :
              parse_event_date(EventOf(i)) < parse_event_date(EventOf(j))

\* the no-show of p is older than every show, counted from the reference day
OlderByAge(p) ==
    \A i \in CountedRows(p), j \in CountedRows(p) :
        (~Attended(i) /\ Attended(j)) => AgeOf(i) > AgeOf(j)

\* every weight is the power of 1/2 of the age, 1 without a half-life
DecayWeights ==
    \A p \in DOMAIN call_result.hist :
        /\ EqualsFraction(call_result.hist[p].w_assignments_total,
                          Weight64Sum(CountedRows(p)), 64)
        /\ call_args.half_life_days <= 0 =>
               EqualsFraction(call_result.hist[p].w_assignments_total,
                              call_result.hist[p].assignments_total, 1)

StrictlyBelow(a, b) == a[1] * b[2] < b[1] * a[2]

(* C22 as stated: the weights are 0.5 ^ (age / half-life) with the age     *)
(* clamped at 0, or 1 without a half-life, and a player with one old       *)
(* no-show and more recent shows has a weighted no-show rate strictly      *)
(* below the unweighted one.                                               *)
C22_Original ==
    HistoryReturned =>
        /\ DecayWeights
        /\ \A p \in DOMAIN call_result.hist :
              OneOldNoShow(p) =>
                  StrictlyBelow(call_result.hist[p].w_noshow_rate,
                                call_result.hist[p].noshow_rate)

(* C22: the weights are 0.5 ^ (age / half-life) with the age clamped at 0, *)
(* or 1 when the half-life is not positive; when the half-life is positive *)
(* and a player's single no-show has a greater clamped age than each of    *)
(* the player's shows, the weighted no-show rate is strictly below the     *)
(* unweighted one; with equal weights the two rates are equal.             *)
C22_DecayWeight ==
    HistoryReturned =>
        /\ DecayWeights
        /\ \A p \in DOMAIN call_result.hist :
              /\ (OneOldNoShow(p) /\ OlderByAge(p) /\ call_args.half_life_days > 0) =>
                     StrictlyBelow(call_result.hist[p].w_noshow_rate,
                                   call_result.hist[p].noshow_rate)
              /\ (OneOldNoShow(p) /\ call_args.half_life_days <= 0) =>
                     call_result.hist[p].w_noshow_rate = call_result.hist[p].noshow_rate

\* a no-show 60 days old and two shows of the reference day, half-life 10
C22_Witness ==
    /\ HistoryReturned
    /\ call_args.half_life_days = 10
    /\ "ann" \in DOMAIN call_result.hist
    /\ OneOldNoShow("ann") /\ OlderByAge("ann")
    /\ call_result.hist["ann"].shows_total = 2
    /\ call_result.hist["ann"].noshow_rate = <<1, 3>>
    /\ StrictlyBelow(call_result.hist["ann"].w_noshow_rate, <<1, 3>>)

-----------------------------------------------------------------------------
(* Vocabulary of the properties of the effective signup states *)

StatesReturned ==
    /\ call_args # NoCall
    /\ call_args.fn = "determine_effective_signup_states"
    /\ call_result # NoCall
DeadlineReturned ==
    call_args # NoCall /\ call_args.fn = "signup_deadline_for_event" /\ call_result # NoCall

\* 03:00 of the Thursday that is the event's day or one of the 6 days before
ThursdayBefore(event) ==
    LET day == CHOOSE d \in (event \div (24 * 60) - 6)..(event \div (24 * 60)) : d % 7 = 3
    IN  day * 24 * 60 + 180

\* the cancellations of player c, as positions in the responses
CancellationsOf(c) ==
    {i \in 1..Len(call_args.responses) :
        /\ call_args.responses[i].canon = c
        /\ call_args.responses[i].status = "cancelled"}

\* a cancellation without a time is older than every other one
TimeOf(i) ==
    IF call_args.responses[i].response_time = {} THEN 0 - 1
    ELSE CHOOSE t \in call_args.responses[i].response_time : TRUE

\* the latest cancellation of c, the last one in the list among equals
LatestCancellation(c) ==
    CHOOSE i \in CancellationsOf(c) :
        \A j \in CancellationsOf(c) :
            TimeOf(j) < TimeOf(i) \/ (TimeOf(j) = TimeOf(i) /\ j <= i)

SignedUp == {call_args.signups[i].canon : i \in 1..Len(call_args.signups)}
Responders == {call_args.responses[i].canon : i \in 1..Len(call_args.responses)}

(* C23: every hard signup and every responder has a state; a hard signup   *)
(* is hard_active when the player has no cancellation, whatever other      *)
(* responses there are, cancelled_early when the latest cancellation has a *)
(* time strictly before the deadline, and cancelled_late otherwise; a      *)
(* responder without a hard signup has the state none.                     *)
C23_EffectiveStates ==
    StatesReturned =>
        LET states == call_result.states
            deadline == ThursdayBefore(call_args.event_datetime_local)
        IN  /\ DOMAIN states = SignedUp \cup Responders
            /\ \A c \in SignedUp :
                  states[c].state =
                      (IF CancellationsOf(c) = {} THEN "hard_active"
                       ELSE IF /\ call_args.responses[LatestCancellation(c)].response_time # {}
                               /\ TimeOf(LatestCancellation(c)) < deadline
                       THEN "cancelled_early"
                       ELSE "cancelled_late")
            /\ \A c \in Responders \ SignedUp : states[c].state = "none"

\* one signup was cancelled before the deadline, one exactly at the deadline,
\* and a player without a signup responded
C23_Witness ==
    /\ StatesReturned
    /\ \E c \in SignedUp : call_result.states[c].state = "cancelled_early"
    /\ \E c \in SignedUp :
          /\ call_result.states[c].state = "cancelled_late"
          /\ TimeOf(LatestCancellation(c)) = ThursdayBefore(call_args.event_datetime_local)
    /\ \E c \in Responders \ SignedUp : call_result.states[c].state = "none"

(* C27 as stated: the deadline is 03:00 on a Thursday, not later than the  *)
(* event and at most 7 days before it.                                     *)
C27_DeadlineBeforeEvent ==
    DeadlineReturned =>
        LET event == call_args.event_datetime_local
            deadline == call_result.deadline
        IN  /\ (deadline \div (24 * 60)) % 7 = 3
            /\ deadline % (24 * 60) = 180
            /\ deadline <= event
            /\ event - deadline <= 7 * 24 * 60

-----------------------------------------------------------------------------
(* Alias rows: vocabulary of C24 and C25, read from the rows of the file.  *)

AliasReturned ==
    /\ call_args # NoCall
    /\ call_args.fn = "load_alias_map"
    /\ call_result # NoCall

AliasKey(i) == canonical_name(call_args.alias_rows[i][1])

\* the position of the row that decides the source name k
FirstRowOf(k) ==
    CHOOSE i \in 1..Len(call_args.alias_rows) :
        /\ AliasKey(i) = k
        /\ \A j \in 1..(i - 1) : AliasKey(j) # k

\* the source names that have a rule onto another name
AliasSources ==
    {k \in {AliasKey(i) : i \in 1..Len(call_args.alias_rows)} :
        /\ k # ""
        /\ canonical_name(call_args.alias_rows[FirstRowOf(k)][2]) # k}

RawTarget(k) == canonical_name(call_args.alias_rows[FirstRowOf(k)][2])

RECURSIVE ReachedFrom(_, _)
\* the names reached from the set S by following up to n raw rules
ReachedFrom(S, n) ==
    IF n = 0 THEN S
    ELSE S \cup ReachedFrom({RawTarget(k) : k \in S \cap AliasSources}, n - 1)

HasCycle ==
    \E k \in AliasSources :
        k \in ReachedFrom({RawTarget(k)}, Cardinality(AliasSources))

RECURSIVE ChainLinks(_, _)
\* the number of rules followed from k to the end of its chain
ChainLinks(k, fuel) ==
    IF k \notin AliasSources \/ fuel = 0 THEN 0
    ELSE 1 + ChainLinks(RawTarget(k), fuel - 1)

LongestChain ==
    LET links == {ChainLinks(k, Cardinality(AliasSources)) : k \in AliasSources}
    IN  IF links = {} THEN 0 ELSE CHOOSE n \in links : \A m \in links : m <= n

\* every alias maps directly to the final target of its chain
MapsToFinalTargets ==
    /\ call_result.error = ""
    /\ DOMAIN call_result.mapping = AliasSources
    /\ \A k \in DOMAIN call_result.mapping :
          /\ call_result.mapping[k] \in ReachedFrom({k}, Cardinality(AliasSources))
          /\ call_result.mapping[k] \notin AliasSources
          /\ call_result.mapping[k] # k

(* C24 as stated: without a cycle and with a longest chain of at most      *)
(* max_depth rules, every alias is mapped directly to the final target of  *)
(* its chain, which is no alias itself, and no key maps to itself.         *)
C24_ChainResolved ==
    (/\ AliasReturned
     /\ ~HasCycle
     /\ call_args.max_depth > 0
     /\ LongestChain <= call_args.max_depth) => MapsToFinalTargets

\* the same for chains of fewer than max_depth rules
ShortChainResolved ==
    (/\ AliasReturned
     /\ ~HasCycle
     /\ LongestChain < call_args.max_depth) => MapsToFinalTargets

\* a chain of two rules was resolved with max_depth 3
ShortChainReached ==
    /\ AliasReturned
    /\ ~HasCycle
    /\ LongestChain = 2
    /\ call_args.max_depth = 3
    /\ call_result.error = ""

(* C25 as stated: load_alias_map raises AliasResolutionError whenever the  *)
(* alias rows contain a cycle; it never returns a mapping for such input.  *)
C25_CycleRaises ==
    (AliasReturned /\ HasCycle) => call_result.error = "AliasResolutionError"

-----------------------------------------------------------------------------
(* The shortage error of build_deterministic_roster (C26).                 *)

ShortageRaised == pc = "raised" /\ error.kind = "RuntimeError"

\* the candidates not yet placed when the failing slot is reached
UnplacedAtRaise == UnplacedAfter(slot - 1)

\* how many of them the low-data guard admits to the failing slot
AdmittedAtRaise ==
    IF GuardActive /\ order[slot].role = "Start"
    THEN LET known == Cardinality({q \in UnplacedAtRaise : ~NoData(q)})
             unknown == Cardinality({q \in UnplacedAtRaise : NoData(q)})
         IN  known + (IF unknown < start_no_data_cap THEN unknown ELSE start_no_data_cap)
    ELSE Cardinality(UnplacedAtRaise)

-----------------------------------------------------------------------------
(* Absences (C28), read from the cells of absences.csv.                    *)

AbsencesMarked ==
    /\ call_args # NoCall
    /\ call_args.fn = "_mark_absences_for_next_event"
    /\ call_result # NoCall
    /\ call_result.step = "marked"

\* the calendar date written in a From or To cell, counted from 2025-01-01
DateInCell(s) ==
    CASE s = "2025-01-06" -> {5}
      [] s \in {"2025-01-08", "2025-01-08 23:59"} -> {7}
      [] s = "2025-01-09" -> {8}
      [] OTHER -> {}

NextEventDate == call_result.next_event_ts \div (24 * 60)

\* the next event lies within From..To, both dates included; a bound that
\* is not given is open
WithinDates(raw) ==
    /\ \A f \in DateInCell(raw.From) : f <= NextEventDate
    /\ \A t \in DateInCell(raw.To) : NextEventDate <= t

(* C28 as stated: an absence row is marked active for the next event       *)
(* exactly when its Scope is next_event, or From and To are both blank, or *)
(* the calendar date of the next event lies within From..To inclusive.     *)
C28_ActiveByDate ==
    AbsencesMarked =>
        \A i \in 1..Len(call_args.absences) :
            LET raw == call_args.absences[i]
            IN  call_result.is_absent_next_event[i] <=>
                    \/ raw.Scope \in {"next_event", " Next_Event "}
                    \/ raw.From \in {"", " "} /\ raw.To \in {"", " "}
                    \/ WithinDates(raw)

\* the code's rule: the To bound is the midnight that starts the To date
ActiveByTimestamp ==
    AbsencesMarked =>
        \A i \in 1..Len(call_args.absences) :
            LET raw == call_args.absences[i]
            IN  call_result.is_absent_next_event[i] <=>
                    \/ raw.Scope \in {"next_event", " Next_Event "}
                    \/ raw.From \in {"", " "} /\ raw.To \in {"", " "}
                    \/ /\ \A f \in DateInCell(raw.From) : f <= NextEventDate
                       /\ \A t \in DateInCell(raw.To) :
                             \/ NextEventDate < t
                             \/ /\ NextEventDate = t
                                /\ \/ call_result.next_event_ts % (24 * 60) = 0
                                   \/ raw.To = "2025-01-08 23:59"

-----------------------------------------------------------------------------
(* Reliability counters (C29), counted from the rows of the call.          *)

ReliabilityReturned ==
    /\ call_args # NoCall
    /\ call_args.fn = "compute_player_reliability"
    /\ call_result # NoCall

\* the effective state of row i: hard_active unless the column names
\* another state
StateOfRow(i) ==
    IF call_args.events[i][5] \in {"none", "cancelled_early", "cancelled_late"}
    THEN call_args.events[i][5] ELSE "hard_active"

\* the Start/Ersatz rows of player p in events from the start date on that
\* are not dropped
ReliabilityRows(p) ==
    {i \in CountedRows(p) :
        \A start \in call_args.reliability_start_date :
            parse_event_date(EventOf(i)) >= start}

RowsInState(p, state) == {i \in ReliabilityRows(p) : StateOfRow(i) = state}

(* C29: for every player of the result, events is the sum of attendance,   *)
(* no_shows, early_cancels and late_cancels; a row with state none changes *)
(* no counter; a cancelled_early or cancelled_late row adds one to its     *)
(* cancel counter and to events only, whatever its attended flag; every    *)
(* other row adds one to events and to attendance or no_shows.             *)
C29_ReliabilityCounters ==
    ReliabilityReturned =>
        /\ DOMAIN call_result.stats =
               {KeyOf(i) : i \in {k \in EventRows :
                   k \in ReliabilityRows(KeyOf(k)) /\ StateOfRow(k) # "none"}}
        /\ \A p \in DOMAIN call_result.stats :
              LET s == call_result.stats[p]
                  active == RowsInState(p, "hard_active")
              IN  /\ s.events = s.attendance + s.no_shows + s.early_cancels + s.late_cancels
                  /\ s.events = Cardinality(ReliabilityRows(p) \ RowsInState(p, "none"))
                  /\ s.early_cancels = Cardinality(RowsInState(p, "cancelled_early"))
                  /\ s.late_cancels = Cardinality(RowsInState(p, "cancelled_late"))
                  /\ s.attendance = Cardinality({i \in active : Attended(i)})
                  /\ s.no_shows = Cardinality({i \in active : ~Attended(i)})

\* a player has a row with state none, a cancelled row marked as attended
\* and a row that counts as attendance
C29_Witness ==
    /\ ReliabilityReturned
    /\ \E p \in DOMAIN call_result.stats :
          /\ RowsInState(p, "none") # {}
          /\ \E i \in RowsInState(p, "cancelled_early") \cup RowsInState(p, "cancelled_late") :
                Attended(i)
          /\ call_result.stats[p].attendance = 1
          /\ call_result.stats[p].events = 2

-----------------------------------------------------------------------------
(* Rosters from hard signups (C30), read from the signups of the call.     *)

RostersReturned ==
    /\ call_args # NoCall
    /\ call_args.fn = "build_rosters_from_hard_signups"
    /\ call_result # NoCall
    /\ call_result.returned

\* the call is under way or has returned
RostersBegun ==
    /\ call_args # NoCall
    /\ call_args.fn = "build_rosters_from_hard_signups"
    /\ call_result # NoCall

WishedGroup(i) ==
    IF call_args.signups[i].group_wish \in {"B", "b", " b "} THEN "B" ELSE "A"
WishedRole(i) ==
    IF call_args.signups[i].role_wish \in {"Ersatz", "ersatz", " Ersatz 1", "Sub ", "sub"}
    THEN "Ersatz" ELSE "Start"

\* the signups before i with the same team and role
SameWishBefore(i) ==
    {j \in 1..(i - 1) : WishedGroup(j) = WishedGroup(i) /\ WishedRole(j) = WishedRole(i)}

InitialCapacity(r) == IF r = "Start" THEN 20 ELSE 10

RosterList(g, r) ==
    LET team == IF g = "A" THEN call_result.out.team_a ELSE call_result.out.team_b
    IN  IF r = "Start" THEN team.start ELSE team.subs

\* how often the signup named n is in list s
TimesIn(s, n) == Cardinality({k \in 1..Len(s) : s[k].name = n})

InInputOrder(s) == \A k, l \in 1..Len(s) : k < l => s[k].name < s[l].name

(* C30: the signups are processed in input order; each is in exactly one   *)
(* list: the start or subs list of its wished team (B only for the wish B) *)
(* when fewer signups before it with the same team and role than the       *)
(* slot's capacity exist, otherwise hard_signups_not_in_roster; no team    *)
(* holds more than 20 starters or 10 substitutes, and the returned         *)
(* capacity of a slot is its initial capacity minus the signups placed.    *)
C30_RostersFromSignups ==
    /\ RostersBegun =>
          \A g \in GroupSet, r \in RoleSet : Len(RosterList(g, r)) <= InitialCapacity(r)
    /\ RostersReturned =>
        /\ \A i \in 1..Len(call_args.signups) :
              LET n == call_args.signups[i].name
                  placed == Cardinality(SameWishBefore(i)) < InitialCapacity(WishedRole(i))
              IN  /\ \A g \in GroupSet, r \in RoleSet :
                        TimesIn(RosterList(g, r), n) =
                            (IF placed /\ g = WishedGroup(i) /\ r = WishedRole(i)
                             THEN 1 ELSE 0)
                  /\ TimesIn(call_result.out.hard_signups_not_in_roster, n) =
                         (IF placed THEN 0 ELSE 1)
        /\ \A g \in GroupSet, r \in RoleSet :
              /\ Len(RosterList(g, r)) <= InitialCapacity(r)
              /\ call_result.out.capacity[g][r] = InitialCapacity(r) - Len(RosterList(g, r))
              /\ InInputOrder(RosterList(g, r))
              /\ \A k \in 1..Len(RosterList(g, r)) : RosterList(g, r)[k].role = r
        /\ InInputOrder(call_result.out.hard_signups_not_in_roster)
        /\ Len(call_result.out.team_a.start) + Len(call_result.out.team_a.subs)
             + Len(call_result.out.team_b.start) + Len(call_result.out.team_b.subs)
             + Len(call_result.out.hard_signups_not_in_roster) = Len(call_args.signups)

\* team B has 20 starters, a further signup for B Start is not in the
\* roster, and a later signup for another slot is placed
C30_Witness ==
    /\ RostersReturned
    /\ Len(call_result.out.team_b.start) = 20
    /\ \E i \in 1..Len(call_args.signups) :
          /\ WishedGroup(i) = "B" /\ WishedRole(i) = "Start"
          /\ TimesIn(call_result.out.hard_signups_not_in_roster, call_args.signups[i].name) = 1
          /\ \E j \in (i + 1)..Len(call_args.signups) :
                TimesIn(call_result.out.team_a.subs, call_args.signups[j].name) = 1

====
